---- MODULE Spec2Model ----
(***************************************************************************)
(* State-machine model of the self-healing core of ai-desktop-assistant:   *)
(*   core/approval.py      ApprovalManager (approval gate)                 *)
(*   core/repair_engine.py RepairEngine, circuit breaker, execute_plan     *)
(*   core/git_helper.py    commit_patch, validate_diff_before_commit       *)
(*   core/self_update.py   SelfUpdater.run_full_autonomy_flow              *)
(*   core/watchdog.py      Watchdog.run_diagnostics                        *)
(* Each component has its own specification (SpecApproval, SpecBreaker,    *)
(* SpecRepair, SpecCommit, SpecDiff, SpecUpdate, SpecWatchdog) over the    *)
(* shared variables; an action leaves the other components' state alone.   *)
(* Text is modelled as a sequence of one-character strings.                *)
(***************************************************************************)
EXTENDS Integers, Sequences, FiniteSets, TLC

VARIABLES
    now,                 \* wall clock, whole seconds (time.time() / datetime.now())
    \* ---- core/approval.py : ApprovalManager
    approval_pin,        \* APPROVAL_PIN (environment, read once at import)
    pending,             \* self._pending: <<>> (None) or <<ApprovalRequest>>
    callback_on_confirm, \* self._callback_on_confirm: 0 (None) or the id of the request that passed it
    callback_on_deny,    \* self._callback_on_deny
    timer,               \* self._timer: <<>> (None) or <<[rid, fire_at, state]>>
    approval_log,        \* self._approval_log
    log_file,            \* logs/approval_log.json (the list it holds)
    confirm_calls,       \* history: how often request r's on_confirm ran
    deny_calls,          \* history: how often request r's on_deny ran
    outcome,             \* history: what became of request r
    n_requests,          \* number of accepted requests so far
    aret,                \* the last ApprovalManager call and what it returned
    \* ---- the monitored components (the objects main_controller hands to both
    \*      Watchdog.set_components and RepairEngine.set_components)
    asr,                 \* <<>> (None) or <<[model, device, ready_for_ptt, recording, last_error_cublas]>>
    tts,                 \* <<>> (None) or <<[engine, last_duration]>>  (last_duration in tenths of a second)
    keyboard,            \* <<>> (None) or <<[running, transcribing]>>
    avatar,              \* <<>> (None) or <<[ws]>>
    dotenv,              \* the .env file: [auto_repair, device]
    snapshots,           \* logs/snapshots, oldest modification time first
    \* ---- core/repair_engine.py
    audio_repair_attempts, \* _audio_repair_attempts
    audio_history,       \* history: every call of restart_audio_device, [t, result, message]
    lock,                \* RepairEngine._lock: "free" or the thread holding it
    eng,                 \* per thread: where it is in execute_plan
    eret,                \* per thread: what its last execute_plan returned
    n_runs,              \* number of engine entries (plans and direct commands) so far
    \* ---- core/git_helper.py and the repository it works on
    commit_timestamps,   \* _commit_timestamps
    worktree,            \* the changed files of the working tree, in path order: [path, xy, ins, del]
    commits,             \* the commit objects: commits[id] = [parent, parent2, tree]
    head,                \* HEAD, an index of commits
    git_actions,         \* logs/git_actions.jsonl: the logged action names
    gret,                \* the last git_helper call and what it returned
    commit_history,      \* history: every call of commit_patch, [t, outcome]
    \* ---- core/self_update.py and the checkout it updates
    workfiles,           \* the contents of the working tree: file -> content (0: no such file)
    stash,               \* git's stash: the stashed working-tree contents, newest last
    origin_main,         \* the remote-tracking ref origin/main
    remote_main,         \* the branch main on the remote
    notifications,       \* what core.notify.notify was called with: [event, summary, details]
    last_run_result,     \* _last_run_result
    uret,                \* the last run_full_autonomy_flow: what it returned and did (history)
    n_flows,             \* number of update flows run so far
    \* ---- core/watchdog.py
    last_mic_frame_time, \* _last_mic_frame_time (0: no frame yet)
    transcription_latencies, \* _transcription_latencies, in seconds
    last_diagnostics,    \* _last_diagnostics: the report run_diagnostics returned
    scanned,             \* history: the recommendations of the last scan, as appended
    n_events,            \* number of component events so far
    \* ---- core/self_heal_planner.py
    planner_report,      \* the DiagnosticReport given to create_plan
    planner_plan,        \* what create_plan returned
    \* ---- core/autonomous_coder.py
    project_files,       \* the files of the project: name -> content (0: no such file)
    coder_snapshots,     \* logs/snapshots: directory -> backup name -> content
    patch_log,           \* autonomous_patch_log.jsonl
    fail_log,            \* self_update_fail.log
    cret,                \* the last analyze_and_fix: what it returned and did (history)
    n_fixes,             \* number of analyze_and_fix calls so far
    \* ---- core/watchdog.py : the poll thread
    environ,             \* os.environ of the running process
    poll_pc,             \* where the poll loop is: "ready", "callback", "executing", "sleep"
    poll_plan,           \* the plan _on_auto_repair hands to execute_plan
    pret,                \* the last poll cycle: what it did (history)
    callback_calls,      \* history: the calls of the repair callback
    poll_errors,         \* the "Poll error" lines of the log
    repair_trace,        \* history: every repair action run, [thread, name, holder, t]
    n_cycles,            \* number of poll cycles so far
    \* ---- core/self_update.py : the monitor thread and the command line
    sched_pc,            \* where _monitor_loop is: "ready" or "sleeping"
    flow_calls,          \* history: every call of run_full_autonomy_flow
    \* ---- core/approval.py : the threads inside the ApprovalManager
    gate,                \* per thread: where it is in request_approval / check_response, its locals
    timer_objs,          \* the threading.Timer started for request r: [state, pc, fire_at, rid]
    gate_events,         \* history: what was announced for request r, a set of [rid, kind]
    n_checks,            \* number of check_response calls that found a request pending
    \* ---- core/repair_engine.py : the threads inside restart_audio_device
    rad,                 \* per thread: where it is in restart_audio_device, its `now`, its results
    \* ---- core/watchdog.py : start, stop and the poll threads they leave behind
    wd_running,          \* Watchdog._running
    wd_thread,           \* Watchdog._thread: 0 (None) or an index of wd_threads
    wd_threads,          \* every poll thread started so far: [pc, cycles]
    wd_caller,           \* the thread calling start / stop: "idle" or "joining"
    \* ---- core/self_update.py : is_in_maintenance_window
    apply_window,        \* SELF_UPDATE_AUTO_APPLY_WINDOW as read from the environment, a text
    wret                 \* the last is_in_maintenance_window call: its time and what it returned

approvalVars == <<approval_pin, pending, callback_on_confirm, callback_on_deny, timer,
                  approval_log, log_file, confirm_calls, deny_calls, outcome,
                  n_requests, aret>>

componentVars == <<asr, tts, keyboard, avatar, dotenv, snapshots>>

repairVars == <<audio_repair_attempts, audio_history, lock, eng, eret, n_runs>>

gitVars == <<commit_timestamps, worktree, commits, head, git_actions, gret, commit_history>>

updateVars == <<workfiles, stash, origin_main, remote_main, notifications, last_run_result, uret, n_flows>>

watchdogVars == <<last_mic_frame_time, transcription_latencies, last_diagnostics, scanned, n_events>>

plannerVars == <<planner_report, planner_plan>>

\* The variables of the components modelled after the watchdog
coderVars == <<project_files, coder_snapshots, patch_log, fail_log, cret, n_fixes>>

monitorVars ==
    <<environ, poll_pc, poll_plan, pret, callback_calls, poll_errors, repair_trace, n_cycles>>

schedVars == <<sched_pc, flow_calls>>

\* The variables added after the poll loop
gateVars == <<gate, timer_objs, gate_events, n_checks>>

radVars == <<rad>>

lifeVars == <<wd_running, wd_thread, wd_threads, wd_caller>>

windowVars == <<apply_window, wret>>

laterVars == <<schedVars, gateVars, radVars, lifeVars, windowVars>>

otherVars == <<plannerVars, coderVars, monitorVars, laterVars>>

vars == <<now, approvalVars, componentVars, repairVars, gitVars, updateVars, watchdogVars, otherVars>>

(***************************************************************************)
(* Text helpers: Python str operations on sequences of characters.         *)
(***************************************************************************)
UpperChars == <<"A","B","C","D","E","F","G","H","I","J","K","L","M",
                "N","O","P","Q","R","S","T","U","V","W","X","Y","Z">>
LowerChars == <<"a","b","c","d","e","f","g","h","i","j","k","l","m",
                "n","o","p","q","r","s","t","u","v","w","x","y","z">>

\* str.lower() on one character
LowerChar(c) ==
    IF \E i \in 1..Len(UpperChars) : UpperChars[i] = c
    THEN LowerChars[CHOOSE i \in 1..Len(UpperChars) : UpperChars[i] = c]
    ELSE c

\* str.lower()
Lower(s) == [i \in 1..Len(s) |-> LowerChar(s[i])]

\* str.strip(): drop leading and trailing blanks
RECURSIVE LStrip(_)
LStrip(s) == IF s # <<>> /\ Head(s) = " " THEN LStrip(Tail(s)) ELSE s
RECURSIVE RStrip(_)
RStrip(s) == IF s # <<>> /\ s[Len(s)] = " " THEN RStrip(SubSeq(s, 1, Len(s) - 1)) ELSE s
Strip(s) == RStrip(LStrip(s))

\* str.replace(" ", "")
RECURSIVE RemoveSpaces(_)
RemoveSpaces(s) ==
    IF s = <<>> THEN <<>>
    ELSE IF Head(s) = " " THEN RemoveSpaces(Tail(s))
    ELSE <<Head(s)>> \o RemoveSpaces(Tail(s))

\* Python's  sub in s
Contains(sub, s) ==
    \E i \in 0..(Len(s) - Len(sub)) : SubSeq(s, i + 1, i + Len(sub)) = sub

\* Python's  s.endswith(suffix)
EndsWith(s, suffix) ==
    /\ Len(suffix) <= Len(s)
    /\ SubSeq(s, Len(s) - Len(suffix) + 1, Len(s)) = suffix

(***************************************************************************)
(* core/approval.py : ApprovalManager                                      *)
(***************************************************************************)
APPROVAL_TIMEOUT == 15

MaxRequests == 2
MaxNowApproval == 30

CONFIRM_PHRASES ==
    { <<"y","e","s">>, <<"y">>, <<"y","e","a","h">>, <<"y","e","p">>, <<"y","u","p">>,
      <<"a","p","p","r","o","v","e">>, <<"a","p","p","r","o","v","e","d">>,
      <<"c","o","n","f","i","r","m">>, <<"c","o","n","f","i","r","m","e","d">>,
      <<"d","o"," ","i","t">>, <<"g","o"," ","a","h","e","a","d">>,
      <<"p","r","o","c","e","e","d">>, <<"o","k">>, <<"o","k","a","y">>,
      <<"s","u","r","e">>, <<"a","f","f","i","r","m","a","t","i","v","e">>,
      <<"a","l","l","o","w">>, <<"a","c","c","e","p","t">> }

DENY_PHRASES ==
    { <<"n","o">>, <<"n">>, <<"n","o","p","e">>, <<"n","a","h">>,
      <<"c","a","n","c","e","l">>, <<"a","b","o","r","t">>, <<"s","t","o","p">>,
      <<"d","e","n","y">>, <<"d","e","n","i","e","d">>,
      <<"d","o","n","'","t">>, <<"d","o","n","t">>,
      <<"n","e","v","e","r","m","i","n","d">>, <<"r","e","j","e","c","t">> }

\* The values APPROVAL_PIN can have: unset, or a 4-digit code.
PinValues == { <<>>, <<"1","2","3","4">> }

\* Actions a caller asks approval for, and the responses the user gives.
ApprovalActions == { "apply software update", "disable autopilot" }
Responses ==
    { <<"y","e","s">>, <<"Y","E","S"," ">>, <<"G","o"," ","a","h","e","a","d">>,
      <<"s","t","o","p">>, <<"c","a","n","c","e","l">>, <<"D","e","n","y">>,
      <<"h","e","l","l","o">>,
      <<"a","p","p","r","o","v","e"," ","1","2","3","4">>,
      <<"o","k"," ","1","2"," ","3","4">>, <<"1","2","3","4">>, <<>> }

Requests == 1..MaxRequests

NoCall == [op |-> "none", ok |-> FALSE, result |-> "", action |-> "", text |-> <<>>]

InitApproval ==
    /\ approval_pin \in PinValues
    /\ pending = <<>>
    /\ callback_on_confirm = 0
    /\ callback_on_deny = 0
    /\ timer = <<>>
    /\ approval_log = <<>>
    /\ log_file = <<>>
    /\ confirm_calls = [r \in Requests |-> 0]
    /\ deny_calls = [r \in Requests |-> 0]
    /\ outcome = [r \in Requests |-> "none"]
    /\ n_requests = 0
    /\ aret = NoCall

\* ApprovalManager._cancel_timer: the value of self._timer afterwards
CancelTimer(t) == <<>>

\* request_approval without its "already pending" check: the new request replaces the old
RequestApproval_NoPendingCheck(action, has_confirm, has_deny, requires_pin) ==
    /\ n_requests < MaxRequests
    /\ n_requests' = n_requests + 1
    /\ pending' = << [action |-> action,
                      reason |-> "reason",
                      timestamp |-> now,
                      expires |-> now + APPROVAL_TIMEOUT,
                      requires_pin |-> (requires_pin \/ approval_pin # <<>>)] >>
    /\ callback_on_confirm' = IF has_confirm THEN n_requests + 1 ELSE 0
    /\ callback_on_deny' = IF has_deny THEN n_requests + 1 ELSE 0
    /\ timer' = << [rid |-> n_requests + 1,
                    fire_at |-> now + APPROVAL_TIMEOUT,
                    state |-> "running"] >>
    /\ outcome' = [outcome EXCEPT ![n_requests + 1] = "pending"]
    /\ aret' = [NoCall EXCEPT !.op = "request_approval", !.ok = TRUE, !.action = action]
    /\ UNCHANGED <<approval_pin, approval_log, log_file, confirm_calls, deny_calls>>

\* ApprovalManager.request_approval; returns aret.ok
RequestApproval(action, has_confirm, has_deny, requires_pin) ==
    IF pending # <<>>
    THEN /\ aret' = [NoCall EXCEPT !.op = "request_approval", !.ok = FALSE, !.action = action]
         /\ UNCHANGED <<approval_pin, pending, callback_on_confirm, callback_on_deny, timer,
                        approval_log, log_file, confirm_calls, deny_calls, outcome, n_requests>>
    ELSE /\ n_requests < MaxRequests
         /\ n_requests' = n_requests + 1
         /\ pending' = << [action |-> action,
                           reason |-> "reason",
                           timestamp |-> now,
                           expires |-> now + APPROVAL_TIMEOUT,
                           requires_pin |-> (requires_pin \/ approval_pin # <<>>)] >>
         /\ callback_on_confirm' = IF has_confirm THEN n_requests + 1 ELSE 0
         /\ callback_on_deny' = IF has_deny THEN n_requests + 1 ELSE 0
         /\ timer' = << [rid |-> n_requests + 1,
                         fire_at |-> now + APPROVAL_TIMEOUT,
                         state |-> "running"] >>
         /\ outcome' = [outcome EXCEPT ![n_requests + 1] = "pending"]
         /\ aret' = [NoCall EXCEPT !.op = "request_approval", !.ok = TRUE, !.action = action]
         /\ UNCHANGED <<approval_pin, approval_log, log_file, confirm_calls, deny_calls>>

\* _on_timeout treating the timeout as a denial: it calls the stored on_deny
OnTimeout_CallsDeny ==
    /\ timer # <<>>
    /\ timer[1].state = "running"
    /\ now >= timer[1].fire_at
    /\ timer' = << [timer[1] EXCEPT !.state = "finished"] >>
    /\ aret' = [NoCall EXCEPT !.op = "_on_timeout"]
    /\ pending' = <<>>
    /\ callback_on_confirm' = 0
    /\ callback_on_deny' = 0
    /\ deny_calls' = IF callback_on_deny # 0
                     THEN [deny_calls EXCEPT ![callback_on_deny] = @ + 1]
                     ELSE deny_calls
    /\ outcome' = IF pending # <<>> THEN [outcome EXCEPT ![n_requests] = "timed_out"]
                  ELSE outcome
    /\ UNCHANGED <<approval_pin, approval_log, log_file, confirm_calls, n_requests>>

\* ApprovalManager._on_timeout, run by the threading.Timer when it expires
OnTimeout ==
    /\ timer # <<>>
    /\ timer[1].state = "running"
    /\ now >= timer[1].fire_at
    /\ timer' = << [timer[1] EXCEPT !.state = "finished"] >>
    /\ aret' = [NoCall EXCEPT !.op = "_on_timeout"]
    /\ IF pending # <<>>
       THEN /\ pending' = <<>>
            /\ callback_on_confirm' = 0
            /\ callback_on_deny' = 0
            /\ outcome' = [outcome EXCEPT ![n_requests] = "timed_out"]
       ELSE UNCHANGED <<pending, callback_on_confirm, callback_on_deny, outcome>>
    /\ UNCHANGED <<approval_pin, approval_log, log_file, confirm_calls, deny_calls, n_requests>>

\* any(phrase in text_lower for phrase in phrases)
AnyPhraseIn(phrases, text_lower) == \E phrase \in phrases : Contains(phrase, text_lower)

\* The classification ApprovalManager.check_response makes of a response to a
\* pending request: "approved", "denied", "need_pin" or "" (not handled).
Classify(text, req_requires_pin, pin) ==
    LET text_lower == Strip(Lower(text))
        pin_found  == Contains(pin, RemoveSpaces(text_lower))
    IN  IF req_requires_pin /\ pin # <<>> /\ ~pin_found
        THEN IF AnyPhraseIn(CONFIRM_PHRASES, text_lower) THEN "need_pin" ELSE ""
        ELSE IF AnyPhraseIn(CONFIRM_PHRASES, text_lower) THEN "approved"
        ELSE IF AnyPhraseIn(DENY_PHRASES, text_lower) THEN "denied"
        ELSE ""

\* Classify, tabulated over the responses of the model
ClassTable ==
    [text \in Responses, rp \in BOOLEAN, pin \in PinValues |-> Classify(text, rp, pin)]

\* ApprovalManager._log_approval: the in-memory list and the JSON file
LogApprovalList(log, action, approved) ==
    Append(log, [action |-> action, approved |-> approved])
LogApprovalFile(file, action, approved) ==
    Append(file, [action |-> action, approved |-> approved])

\* Which stored callback the approved / denied branch of check_response calls:
\* <<which one, the request that passed it (0: None)>>
ConfirmBranchCallback == <<"on_confirm", callback_on_confirm>>
\* the denied branch copied from the approved branch with the callback left as on_confirm
DenyBranchCallback_Confirm == <<"on_confirm", callback_on_confirm>>
DenyBranchCallback == <<"on_deny", callback_on_deny>>

\* ApprovalManager.check_response; returns (aret.ok, aret.result)
CheckResponse(text) ==
    IF pending = <<>>
    THEN /\ aret' = [NoCall EXCEPT !.op = "check_response"]
         /\ UNCHANGED <<approval_pin, pending, callback_on_confirm, callback_on_deny, timer,
                        approval_log, log_file, confirm_calls, deny_calls, outcome, n_requests>>
    ELSE LET c == ClassTable[text, pending[1].requires_pin, approval_pin]
             action == pending[1].action
         IN  IF c \in {"approved", "denied"}
             THEN LET callback == IF c = "approved" THEN ConfirmBranchCallback
                                  ELSE DenyBranchCallback
                  IN  /\ timer' = CancelTimer(timer)
                      /\ approval_log' = LogApprovalList(approval_log, action, c = "approved")
                      /\ log_file' = LogApprovalFile(log_file, action, c = "approved")
                      /\ pending' = <<>>
                      /\ callback_on_confirm' = 0
                      /\ callback_on_deny' = 0
                      /\ confirm_calls' = IF callback[2] # 0 /\ callback[1] = "on_confirm"
                                          THEN [confirm_calls EXCEPT ![callback[2]] = @ + 1]
                                          ELSE confirm_calls
                      /\ deny_calls' = IF callback[2] # 0 /\ callback[1] = "on_deny"
                                       THEN [deny_calls EXCEPT ![callback[2]] = @ + 1]
                                       ELSE deny_calls
                      /\ outcome' = [outcome EXCEPT ![n_requests] = c]
                      /\ aret' = [NoCall EXCEPT !.op = "check_response", !.ok = TRUE,
                                                !.result = c, !.action = action,
                                                !.text = text]
                      /\ UNCHANGED <<approval_pin, n_requests>>
             ELSE /\ aret' = [NoCall EXCEPT !.op = "check_response", !.ok = (c = "need_pin"),
                                            !.result = c, !.action = action, !.text = text]
                  /\ UNCHANGED <<approval_pin, pending, callback_on_confirm, callback_on_deny,
                                 timer, approval_log, log_file, confirm_calls, deny_calls,
                                 outcome, n_requests>>

\* ApprovalManager.cancel_pending
CancelPending ==
    /\ timer' = CancelTimer(timer)
    /\ pending' = <<>>
    /\ callback_on_confirm' = 0
    /\ callback_on_deny' = 0
    /\ outcome' = IF pending # <<>> THEN [outcome EXCEPT ![n_requests] = "cancelled"] ELSE outcome
    /\ aret' = [NoCall EXCEPT !.op = "cancel_pending"]
    /\ UNCHANGED <<approval_pin, approval_log, log_file, confirm_calls, deny_calls, n_requests>>

\* What a step of the approval gate leaves alone
ApprovalFrame == UNCHANGED <<now, componentVars, repairVars, gitVars, updateVars, watchdogVars, otherVars>>

\* Time passes; a running timer fires when it expires, not later.
TickApproval ==
    \E d \in {5, 10} :
        /\ now + d <= MaxNowApproval
        /\ (timer # <<>> /\ timer[1].state = "running") => now + d <= timer[1].fire_at
        /\ now' = now + d
        /\ UNCHANGED <<approvalVars, componentVars, repairVars, gitVars, updateVars, watchdogVars, otherVars>>

NextApproval ==
    \/ \E a \in ApprovalActions, hc \in BOOLEAN, hd \in BOOLEAN, rp \in BOOLEAN :
          RequestApproval(a, hc, hd, rp) /\ ApprovalFrame
    \/ OnTimeout /\ ApprovalFrame
    \/ \E text \in Responses : CheckResponse(text) /\ ApprovalFrame
    \/ CancelPending /\ ApprovalFrame
    \/ TickApproval

(***************************************************************************)
(* core/approval.py : ApprovalManager called from several threads.  The    *)
(* manager has no lock: every read and write of its attributes is a step   *)
(* of its own, and the threading.Timer runs _on_timeout on its own thread. *)
(***************************************************************************)
GateThreads == { "voice", "worker" }

GateIdle == [pc |-> "idle", rid |-> 0, action |-> "", text |-> <<>>, cls |-> "", callback |-> 0]

NoTimer == [state |-> "none", pc |-> "none", fire_at |-> 0, rid |-> 0]

InitGate ==
    /\ gate = [th \in GateThreads |-> GateIdle]
    /\ timer_objs = [r \in Requests |-> NoTimer]
    /\ gate_events = {}
    /\ n_checks = 0

GateFrame ==
    UNCHANGED <<componentVars, repairVars, gitVars, updateVars, watchdogVars, plannerVars, coderVars,
                monitorVars, schedVars, radVars, lifeVars, windowVars>>

\* Timer.cancel() on the timer self._timer refers to: it stops a timer that is
\* still waiting, and has no effect on one whose function already runs
CancelledTimers(objs, ref) ==
    IF ref = <<>> THEN objs
    ELSE [objs EXCEPT ![ref[1].rid].state = IF @ = "running" THEN "cancelled" ELSE @]

\* request_approval, line 89: `if self._pending: return False`
ReqCheckPending(th, action) ==
    /\ gate[th].pc = "idle"
    /\ IF pending # <<>>
       THEN /\ aret' = [NoCall EXCEPT !.op = "request_approval", !.ok = FALSE, !.action = action]
            /\ UNCHANGED <<gate, n_requests>>
       ELSE /\ n_requests < MaxRequests
            /\ n_requests' = n_requests + 1
            /\ gate' = [gate EXCEPT ![th] = [GateIdle EXCEPT !.pc = "req_cancel",
                                                            !.rid = n_requests + 1,
                                                            !.action = action]]
            /\ UNCHANGED aret
    /\ UNCHANGED <<approval_pin, pending, callback_on_confirm, callback_on_deny, timer, approval_log,
                   log_file, confirm_calls, deny_calls, outcome, timer_objs, gate_events, n_checks, now>>
    /\ GateFrame

\* request_approval, line 94: self._cancel_timer()
ReqCancelTimer(th) ==
    /\ gate[th].pc = "req_cancel"
    /\ timer_objs' = CancelledTimers(timer_objs, timer)
    /\ timer' = CancelTimer(timer)
    /\ gate' = [gate EXCEPT ![th].pc = "req_store"]
    /\ UNCHANGED <<approval_pin, pending, callback_on_confirm, callback_on_deny, approval_log, log_file,
                   confirm_calls, deny_calls, outcome, n_requests, aret, gate_events, n_checks, now>>
    /\ GateFrame

\* request_approval, lines 96-103: self._pending = ApprovalRequest(...)
ReqStorePending(th, requires_pin) ==
    /\ gate[th].pc = "req_store"
    /\ pending' = << [action |-> gate[th].action,
                      reason |-> "reason",
                      timestamp |-> now,
                      expires |-> now + APPROVAL_TIMEOUT,
                      requires_pin |-> (requires_pin \/ approval_pin # <<>>),
                      rid |-> gate[th].rid] >>
    /\ gate' = [gate EXCEPT ![th].pc = "req_confirm"]
    /\ UNCHANGED <<approval_pin, callback_on_confirm, callback_on_deny, timer, approval_log, log_file,
                   confirm_calls, deny_calls, outcome, n_requests, aret, timer_objs, gate_events,
                   n_checks, now>>
    /\ GateFrame

\* request_approval, line 104: self._callback_on_confirm = on_confirm
ReqStoreConfirm(th) ==
    /\ gate[th].pc = "req_confirm"
    /\ callback_on_confirm' = gate[th].rid
    /\ gate' = [gate EXCEPT ![th].pc = "req_deny"]
    /\ UNCHANGED <<approval_pin, pending, callback_on_deny, timer, approval_log, log_file,
                   confirm_calls, deny_calls, outcome, n_requests, aret, timer_objs, gate_events,
                   n_checks, now>>
    /\ GateFrame

\* request_approval, line 105: self._callback_on_deny = on_deny
ReqStoreDeny(th) ==
    /\ gate[th].pc = "req_deny"
    /\ callback_on_deny' = gate[th].rid
    /\ gate' = [gate EXCEPT ![th].pc = "req_timer"]
    /\ UNCHANGED <<approval_pin, pending, callback_on_confirm, timer, approval_log, log_file,
                   confirm_calls, deny_calls, outcome, n_requests, aret, timer_objs, gate_events,
                   n_checks, now>>
    /\ GateFrame

\* request_approval, lines 114-118: the timer is created and started, and the
\* call returns True
ReqStartTimer(th) ==
    LET rid == gate[th].rid
    IN  /\ gate[th].pc = "req_timer"
        /\ timer' = << [rid |-> rid, fire_at |-> now + APPROVAL_TIMEOUT, state |-> "running"] >>
        /\ timer_objs' = [timer_objs EXCEPT ![rid] = [state |-> "running", pc |-> "waiting",
                                                      fire_at |-> now + APPROVAL_TIMEOUT, rid |-> 0]]
        /\ gate_events' = gate_events \cup { [rid |-> rid, kind |-> "accepted"] }
        /\ outcome' = [outcome EXCEPT ![rid] = IF @ = "none" THEN "pending" ELSE @]
        /\ aret' = [NoCall EXCEPT !.op = "request_approval", !.ok = TRUE, !.action = gate[th].action]
        /\ gate' = [gate EXCEPT ![th] = GateIdle]
        /\ UNCHANGED <<approval_pin, pending, callback_on_confirm, callback_on_deny, approval_log,
                       log_file, confirm_calls, deny_calls, n_requests, n_checks, now>>
        /\ GateFrame

\* The timer of request r expires: its thread starts to run _on_timeout
TimerFires(r) ==
    /\ timer_objs[r].state = "running"
    /\ now >= timer_objs[r].fire_at
    /\ timer_objs' = [timer_objs EXCEPT ![r].state = "fired", ![r].pc = "check"]
    /\ UNCHANGED <<approvalVars, gate, gate_events, n_checks, now>>
    /\ GateFrame

\* _on_timeout, line 128: `if self._pending:`
TimeoutCheckPending(r) ==
    /\ timer_objs[r].pc = "check"
    /\ timer_objs' = [timer_objs EXCEPT ![r].pc = IF pending # <<>> THEN "read" ELSE "done"]
    /\ UNCHANGED <<approvalVars, gate, gate_events, n_checks, now>>
    /\ GateFrame

\* _on_timeout, line 129: action = self._pending.action, which raises
\* AttributeError in the timer's thread when the request is gone by now
TimeoutReadAction(r) ==
    /\ timer_objs[r].pc = "read"
    /\ timer_objs' = IF pending = <<>> THEN [timer_objs EXCEPT ![r].pc = "done"]
                     ELSE [timer_objs EXCEPT ![r].pc = "clear", ![r].rid = pending[1].rid]
    /\ UNCHANGED <<approvalVars, gate, gate_events, n_checks, now>>
    /\ GateFrame

\* _on_timeout, line 130: self._pending = None
TimeoutClearPending(r) ==
    /\ timer_objs[r].pc = "clear"
    /\ pending' = <<>>
    /\ timer_objs' = [timer_objs EXCEPT ![r].pc = "announce"]
    /\ UNCHANGED <<approval_pin, callback_on_confirm, callback_on_deny, timer, approval_log, log_file,
                   confirm_calls, deny_calls, outcome, n_requests, aret, gate, gate_events, n_checks,
                   now>>
    /\ GateFrame

\* _on_timeout, lines 131-134: the callbacks are dropped and "Approval timed
\* out" is spoken and logged for the action read before
TimeoutAnnounce(r) ==
    /\ timer_objs[r].pc = "announce"
    /\ callback_on_confirm' = 0
    /\ callback_on_deny' = 0
    /\ gate_events' = gate_events \cup { [rid |-> timer_objs[r].rid, kind |-> "timed_out"] }
    /\ outcome' = [outcome EXCEPT ![timer_objs[r].rid] = "timed_out"]
    /\ aret' = [NoCall EXCEPT !.op = "_on_timeout"]
    /\ timer_objs' = [timer_objs EXCEPT ![r].pc = "done"]
    /\ UNCHANGED <<approval_pin, pending, timer, approval_log, log_file, confirm_calls, deny_calls,
                   n_requests, gate, n_checks, now>>
    /\ GateFrame

\* check_response, line 141: `if not self._pending: return False, ""`
ChkPending(th, text, max_checks) ==
    /\ gate[th].pc = "idle"
    /\ IF pending = <<>>
       THEN /\ aret' = [NoCall EXCEPT !.op = "check_response"]
            /\ UNCHANGED <<gate, n_checks>>
       ELSE /\ n_checks < max_checks
            /\ n_checks' = n_checks + 1
            /\ gate' = [gate EXCEPT ![th] = [GateIdle EXCEPT !.pc = "chk_pin", !.text = text]]
            /\ UNCHANGED aret
    /\ UNCHANGED <<approval_pin, pending, callback_on_confirm, callback_on_deny, timer, approval_log,
                   log_file, confirm_calls, deny_calls, outcome, n_requests, timer_objs, gate_events,
                   now>>
    /\ GateFrame

\* What check_response does when self._pending is None where it reads an
\* attribute of it: AttributeError leaves check_response
ChkRaises(th) ==
    /\ aret' = [NoCall EXCEPT !.op = "check_response", !.result = "AttributeError",
                              !.text = gate[th].text]
    /\ gate_events' = gate_events \cup { [rid |-> gate[th].rid, kind |-> "error"] }
    /\ gate' = [gate EXCEPT ![th] = GateIdle]

\* check_response, lines 148-159: self._pending.requires_pin is read and the
\* response is classified
ChkClassify(th) ==
    /\ gate[th].pc = "chk_pin"
    /\ IF pending = <<>>
       THEN ChkRaises(th)
       ELSE LET c == ClassTable[gate[th].text, pending[1].requires_pin, approval_pin]
            IN  IF c \in { "approved", "denied" }
                THEN /\ gate' = [gate EXCEPT ![th].pc = "chk_cancel", ![th].cls = c]
                     /\ UNCHANGED <<aret, gate_events>>
                ELSE /\ aret' = [NoCall EXCEPT !.op = "check_response", !.ok = (c = "need_pin"),
                                               !.result = c, !.action = pending[1].action,
                                               !.text = gate[th].text]
                     /\ gate' = [gate EXCEPT ![th] = GateIdle]
                     /\ UNCHANGED gate_events
    /\ UNCHANGED <<approval_pin, pending, callback_on_confirm, callback_on_deny, timer, approval_log,
                   log_file, confirm_calls, deny_calls, outcome, n_requests, timer_objs, n_checks, now>>
    /\ GateFrame

\* check_response, lines 161 / 185: self._cancel_timer()
ChkCancelTimer(th) ==
    /\ gate[th].pc = "chk_cancel"
    /\ timer_objs' = CancelledTimers(timer_objs, timer)
    /\ timer' = CancelTimer(timer)
    /\ gate' = [gate EXCEPT ![th].pc = "chk_read"]
    /\ UNCHANGED <<approval_pin, pending, callback_on_confirm, callback_on_deny, approval_log, log_file,
                   confirm_calls, deny_calls, outcome, n_requests, aret, gate_events, n_checks, now>>
    /\ GateFrame

\* check_response, lines 162-163 / 186-187: action = self._pending.action and
\* callback = the stored callback of the branch
ChkReadRequest(th) ==
    LET callback == IF gate[th].cls = "approved" THEN ConfirmBranchCallback ELSE DenyBranchCallback
    IN  /\ gate[th].pc = "chk_read"
        /\ IF pending = <<>>
           THEN ChkRaises(th)
           ELSE /\ gate' = [gate EXCEPT ![th].pc = "chk_clear", ![th].action = pending[1].action,
                                        ![th].rid = pending[1].rid, ![th].callback = callback[2]]
                /\ UNCHANGED <<aret, gate_events>>
        /\ UNCHANGED <<approval_pin, pending, callback_on_confirm, callback_on_deny, timer,
                       approval_log, log_file, confirm_calls, deny_calls, outcome, n_requests,
                       timer_objs, n_checks, now>>
        /\ GateFrame

\* check_response, lines 166-173 / 190-197: the decision is logged, the
\* request and the callbacks are dropped, the decision is spoken
ChkLogAndClear(th) ==
    LET approved == gate[th].cls = "approved"
    IN  /\ gate[th].pc = "chk_clear"
        /\ approval_log' = LogApprovalList(approval_log, gate[th].action, approved)
        /\ log_file' = LogApprovalFile(log_file, gate[th].action, approved)
        /\ pending' = <<>>
        /\ callback_on_confirm' = 0
        /\ callback_on_deny' = 0
        /\ gate_events' = gate_events \cup { [rid |-> gate[th].rid, kind |-> gate[th].cls] }
        /\ outcome' = [outcome EXCEPT ![gate[th].rid] = gate[th].cls]
        /\ gate' = [gate EXCEPT ![th].pc = "chk_call"]
        /\ UNCHANGED <<approval_pin, timer, confirm_calls, deny_calls, n_requests, aret, timer_objs,
                       n_checks, now>>
        /\ GateFrame

\* check_response, lines 175-181 / 199-205: the callback read before is
\* called, if there was one, and the call returns
ChkCallback(th) ==
    LET approved == gate[th].cls = "approved"
        cb == gate[th].callback
    IN  /\ gate[th].pc = "chk_call"
        /\ confirm_calls' = IF cb # 0 /\ approved THEN [confirm_calls EXCEPT ![cb] = @ + 1]
                            ELSE confirm_calls
        /\ deny_calls' = IF cb # 0 /\ ~approved THEN [deny_calls EXCEPT ![cb] = @ + 1]
                         ELSE deny_calls
        /\ aret' = [NoCall EXCEPT !.op = "check_response", !.ok = TRUE, !.result = gate[th].cls,
                                  !.action = gate[th].action, !.text = gate[th].text]
        /\ gate' = [gate EXCEPT ![th] = GateIdle]
        /\ UNCHANGED <<approval_pin, pending, callback_on_confirm, callback_on_deny, timer,
                       approval_log, log_file, outcome, n_requests, timer_objs, gate_events, n_checks,
                       now>>
        /\ GateFrame

\* ---- the approval gate under concurrent callers
MaxNowGate == 15
MaxChecks == 2
GateResponses == { <<"y","e","s">>, <<"s","t","o","p">> }
\* The thread that hands the user's responses to check_response
ResponseThread == "voice"
\* What each thread asks approval for
GateAction == [voice |-> "disable autopilot", worker |-> "apply software update"]

TickGate ==
    /\ now + APPROVAL_TIMEOUT <= MaxNowGate
    /\ now' = now + APPROVAL_TIMEOUT
    /\ UNCHANGED <<approvalVars, gateVars>>
    /\ GateFrame

NextGate ==
    \/ \E th \in GateThreads : ReqCheckPending(th, GateAction[th])
    \/ \E th \in GateThreads : ReqCancelTimer(th)
    \/ \E th \in GateThreads : ReqStorePending(th, FALSE)
    \/ \E th \in GateThreads : ReqStoreConfirm(th)
    \/ \E th \in GateThreads : ReqStoreDeny(th)
    \/ \E th \in GateThreads : ReqStartTimer(th)
    \/ \E r \in Requests : TimerFires(r)
    \/ \E r \in Requests : TimeoutCheckPending(r)
    \/ \E r \in Requests : TimeoutReadAction(r)
    \/ \E r \in Requests : TimeoutClearPending(r)
    \/ \E r \in Requests : TimeoutAnnounce(r)
    \/ \E text \in GateResponses : ChkPending(ResponseThread, text, MaxChecks)
    \/ ChkClassify(ResponseThread)
    \/ ChkCancelTimer(ResponseThread)
    \/ ChkReadRequest(ResponseThread)
    \/ ChkLogAndClear(ResponseThread)
    \/ ChkCallback(ResponseThread)
    \/ TickGate

(***************************************************************************)
(* The monitored components                                                *)
(***************************************************************************)
\* The components as main_controller hands them over: healthy objects, or
\* None where a component could not be constructed.
InitComponents(present) ==
    /\ asr = IF present
             THEN << [model |-> TRUE, device |-> "cuda", ready_for_ptt |-> TRUE,
                      recording |-> FALSE, last_error_cublas |-> FALSE] >>
             ELSE <<>>
    /\ tts = IF present THEN << [engine |-> TRUE, last_duration |-> 20] >> ELSE <<>>
    /\ keyboard = IF present THEN << [running |-> TRUE, transcribing |-> FALSE] >> ELSE <<>>
    /\ avatar = IF present THEN << [ws |-> TRUE] >> ELSE <<>>
    /\ dotenv = [auto_repair |-> "true", device |-> "cuda"]
    /\ snapshots = <<>>

(***************************************************************************)
(* core/repair_engine.py : RepairEngine                                    *)
(***************************************************************************)
MAX_RETRIES == 2
AUDIO_REPAIR_MAX_ATTEMPTS == 3
AUDIO_REPAIR_COOLDOWN_MINUTES == 10
SNAPSHOT_KEEP == 7

Threads == { "poll", "user" }

\* RepairAction (duration left out)
RepairAction(name, result, message, snapshot_path) ==
    [name |-> name, result |-> result, message |-> message, snapshot_path |-> snapshot_path]

NoSnapshot == <<>>

\* The state the repair actions read and change, as one value.
World ==
    [asr |-> asr, tts |-> tts, keyboard |-> keyboard, avatar |-> avatar, dotenv |-> dotenv,
     snapshots |-> snapshots, attempts |-> audio_repair_attempts,
     history |-> audio_history, clock |-> now]

SetWorld(w) ==
    /\ asr' = w.asr
    /\ tts' = w.tts
    /\ keyboard' = w.keyboard
    /\ avatar' = w.avatar
    /\ dotenv' = w.dotenv
    /\ snapshots' = w.snapshots
    /\ audio_repair_attempts' = w.attempts
    /\ audio_history' = w.history
    /\ now' = w.clock

\* create_snapshot's pruning: of the entries sorted newest first, those after
\* the first SNAPSHOT_KEEP are removed when they are directories.
PruneSnapshotDirs(store) ==
    LET n == Len(store)
        keep == { i \in 1..n : i > n - SNAPSHOT_KEEP \/ store[i].kind # "dir" }
        F[i \in 0..n] ==
            IF i = 0 THEN <<>>
            ELSE IF i \in keep THEN Append(F[i - 1], store[i]) ELSE F[i - 1]
    IN  F[n]

\* create_snapshot(label): the directory <ts>_<label> is created (or reused when
\* it exists: mkdir(exist_ok=True)), then the store is pruned.
SnapshotPath(ts, label) == <<ts, label>>
CreateSnapshot(w, label) ==
    LET path == SnapshotPath(w.clock, label)
        added == IF \E i \in 1..Len(w.snapshots) : w.snapshots[i].path = path
                 THEN w.snapshots
                 ELSE Append(w.snapshots, [kind |-> "dir", path |-> path])
    IN  [w EXCEPT !.snapshots = PruneSnapshotDirs(added)]

\* What one call of a repair action can do: the world afterwards and the
\* results it returns.
Outcome(w, res) == [w |-> w, res |-> res]

\* restart_asr: attempt number retry + 1; each attempt takes its own snapshot,
\* a failed attempt sleeps one second and tries again while retry < MAX_RETRIES.
RECURSIVE RestartAsr(_, _)
RestartAsr(w, retry) ==
    LET ws == CreateSnapshot(w, "restart_asr")
        snap == SnapshotPath(w.clock, "restart_asr")
        loaded == IF ws.asr = <<>>
                  THEN << [model |-> TRUE, device |-> "cuda", ready_for_ptt |-> TRUE,
                           recording |-> FALSE, last_error_cublas |-> FALSE] >>
                  ELSE << [ws.asr[1] EXCEPT !.model = TRUE] >>
        unloaded == IF ws.asr = <<>> THEN <<>> ELSE << [ws.asr[1] EXCEPT !.model = FALSE] >>
        wfail == [ws EXCEPT !.asr = unloaded]
    IN  { Outcome([ws EXCEPT !.asr = loaded],
                  << RepairAction("restart_asr", "success", "ASR restarted", snap) >>) }
        \cup
        ( IF retry < MAX_RETRIES
          THEN RestartAsr([wfail EXCEPT !.clock = @ + 1], retry + 1)
          ELSE { Outcome(wfail, << RepairAction("restart_asr", "failed", "error", snap) >>) } )

\* switch_asr_to_cpu
SwitchAsrToCpu(w) ==
    LET w0 == CreateSnapshot(w, "switch_asr_to_cpu")
        ws == [w0 EXCEPT !.dotenv.device = "cpu"]
        snap == SnapshotPath(w.clock, "switch_asr_to_cpu")
    IN  IF ws.asr = <<>>
        THEN { Outcome(ws, << RepairAction("switch_asr_to_cpu", "skipped", "No ASR to switch", snap) >>),
               Outcome(w0, << RepairAction("switch_asr_to_cpu", "failed", "error", snap) >>) }
        ELSE { Outcome([ws EXCEPT !.asr = << [@[1] EXCEPT !.model = TRUE, !.device = "cpu",
                                                       !.ready_for_ptt = TRUE] >>],
                       << RepairAction("switch_asr_to_cpu", "success", "Now using CPU", snap) >>),
               Outcome([ws EXCEPT !.asr = << [@[1] EXCEPT !.model = FALSE, !.device = "cpu"] >>],
                       << RepairAction("switch_asr_to_cpu", "failed", "error", snap) >>) }

\* restart_tts
RestartTts(w) ==
    LET ws == CreateSnapshot(w, "restart_tts")
        snap == SnapshotPath(w.clock, "restart_tts")
    IN  { Outcome([ws EXCEPT !.tts = << [engine |-> TRUE, last_duration |-> 20] >>],
                  << RepairAction("restart_tts", "success",
                                  IF w.tts = <<>> THEN "TTS created and tested"
                                  ELSE "TTS restarted and tested", snap) >>),
          Outcome(ws, << RepairAction("restart_tts", "failed", "error", snap) >>) }

\* (variant) the pruning keeps an attempt that is exactly one cooldown old
PruneAttempts_Inclusive(attempts, t) ==
    LET cutoff == t - (AUDIO_REPAIR_COOLDOWN_MINUTES * 60)
    IN  SelectSeq(attempts, LAMBDA x : x >= cutoff)

\* The circuit breaker's pruning of the attempt window
PruneAttempts(attempts, t) ==
    LET cutoff == t - (AUDIO_REPAIR_COOLDOWN_MINUTES * 60)
    IN  SelectSeq(attempts, LAMBDA x : x > cutoff)

\* restart_audio_device, guarded by the circuit breaker
RestartAudioDevice(w) ==
    LET pruned == PruneAttempts(w.attempts, w.clock)
        note(result, message) ==
            Append(w.history, [t |-> w.clock, result |-> result, message |-> message])
    IN  IF Len(pruned) >= AUDIO_REPAIR_MAX_ATTEMPTS
        THEN { Outcome([w EXCEPT !.attempts = pruned,
                                 !.dotenv.auto_repair = IF @ = "true" THEN "false" ELSE @,
                                 !.history = note("skipped", "Circuit breaker: too many attempts")],
                       << RepairAction("restart_audio_device", "skipped",
                                       "Circuit breaker: too many attempts", NoSnapshot) >>) }
        ELSE LET wa == [w EXCEPT !.attempts = Append(pruned, w.clock)]
                 ws == CreateSnapshot(wa, "restart_audio_device")
                 snap == SnapshotPath(w.clock, "restart_audio_device")
             IN  { Outcome([ws EXCEPT !.history = note("success", "Using device")],
                           << RepairAction("restart_audio_device", "success", "Using device", snap) >>),
                   Outcome([ws EXCEPT !.history = note("failed", "No working input device found")],
                           << RepairAction("restart_audio_device", "failed",
                                           "No working input device found", snap) >>) }

\* rebind_hotkeys
RebindHotkeys(w) ==
    LET ws == CreateSnapshot(w, "rebind_hotkeys")
        snap == SnapshotPath(w.clock, "rebind_hotkeys")
    IN  IF ws.keyboard = <<>>
        THEN { Outcome(ws, << RepairAction("rebind_hotkeys", "skipped", "No keyboard listener", snap) >>),
               Outcome(ws, << RepairAction("rebind_hotkeys", "failed", "error", snap) >>) }
        ELSE { Outcome([ws EXCEPT !.keyboard = << [@[1] EXCEPT !.running = TRUE] >>],
                       << RepairAction("rebind_hotkeys", "success", "Hotkeys rebound", snap) >>),
               Outcome([ws EXCEPT !.keyboard = << [@[1] EXCEPT !.running = FALSE] >>],
                       << RepairAction("rebind_hotkeys", "failed", "error", snap) >>),
               Outcome(ws, << RepairAction("rebind_hotkeys", "failed", "error", snap) >>) }

\* reset_ptt_state (takes no snapshot)
ResetPttState(w) ==
    LET wa == IF w.asr = <<>> THEN w
              ELSE [w EXCEPT !.asr = << [@[1] EXCEPT !.ready_for_ptt = TRUE,
                                                     !.recording = FALSE] >>]
        wk == IF wa.keyboard = <<>> THEN wa
              ELSE [wa EXCEPT !.keyboard = << [@[1] EXCEPT !.transcribing = FALSE] >>]
    IN  { Outcome(wk, << RepairAction("reset_ptt_state", "success", "PTT reset", NoSnapshot) >>),
          Outcome(wa, << RepairAction("reset_ptt_state", "failed", "error", NoSnapshot) >>) }

\* reconnect_avatar (takes no snapshot; a failure is reported as partial)
ReconnectAvatar(w) ==
    IF w.avatar = <<>>
    THEN { Outcome(w, << RepairAction("reconnect_avatar", "skipped", "No avatar configured", NoSnapshot) >>) }
    ELSE { Outcome([w EXCEPT !.avatar = << [ws |-> TRUE] >>, !.clock = @ + 1],
                   << RepairAction("reconnect_avatar", "success", "Avatar reconnected", NoSnapshot) >>),
           Outcome([w EXCEPT !.avatar = << [ws |-> FALSE] >>, !.clock = @ + 1],
                   << RepairAction("reconnect_avatar", "partial",
                                   "Avatar connection failed (optional)", NoSnapshot) >>),
           Outcome([w EXCEPT !.avatar = << [ws |-> FALSE] >>],
                   << RepairAction("reconnect_avatar", "partial", "error", NoSnapshot) >>) }

\* _test_mic
TestMic(w) ==
    { Outcome(w, << RepairAction("test_mic", r, "mic test", NoSnapshot) >>) :
        r \in { "success", "partial", "failed" } }

\* Run `second` after each outcome of `first`, appending the results.
Then(first, second(_)) ==
    UNION { { Outcome(o2.w, o1.res \o o2.res) : o2 \in second(o1.w) } : o1 \in first }

RestartAsr0(w) == RestartAsr(w, 0)

\* repair_mic_routine: six steps in a fixed order
RepairMicRoutine(w) ==
    Then(Then(Then(Then(Then(RebindHotkeys(w), ResetPttState), RestartAudioDevice),
                   SwitchAsrToCpu), RestartAsr0), TestMic)

\* The dispatch of execute_plan on one item's action name
PlanActions ==
    { "restart_asr", "switch_asr_to_cpu", "restart_tts", "restart_audio_device",
      "rebind_hotkeys", "reset_ptt_state", "reconnect_avatar", "repair_mic_routine" }

Dispatch(action_name, w) ==
    CASE action_name = "restart_asr" -> RestartAsr(w, 0)
      [] action_name = "switch_asr_to_cpu" -> SwitchAsrToCpu(w)
      [] action_name = "restart_tts" -> RestartTts(w)
      [] action_name = "restart_audio_device" -> RestartAudioDevice(w)
      [] action_name = "rebind_hotkeys" -> RebindHotkeys(w)
      [] action_name = "reset_ptt_state" -> ResetPttState(w)
      [] action_name = "reconnect_avatar" -> ReconnectAvatar(w)
      [] action_name = "repair_mic_routine" -> RepairMicRoutine(w)
      [] OTHER -> { Outcome(w, << RepairAction(action_name, "skipped", "Unknown action", NoSnapshot) >>) }

Idle == [pc |-> "idle", plan |-> <<>>, idx |-> 0, results |-> <<>>]
NoReturn == [returned |-> FALSE, results |-> <<>>, escalations |-> <<>>]

InitRepair ==
    /\ audio_repair_attempts = <<>>
    /\ audio_history = <<>>
    /\ lock = "free"
    /\ eng = [t \in Threads |-> Idle]
    /\ eret = [t \in Threads |-> NoReturn]
    /\ n_runs = 0

\* (the thread that runs the repair states what becomes of the poll loop's variables)
RepairFrame ==
    UNCHANGED <<approvalVars, gitVars, updateVars, watchdogVars, plannerVars, coderVars, laterVars>>

\* execute_plan: `with self._lock:` is entered and the loop starts
ExecutePlanBegin(t, plan, max_runs) ==
    /\ eng[t].pc = "idle"
    /\ lock = "free"
    /\ n_runs < max_runs
    /\ n_runs' = n_runs + 1
    /\ lock' = t
    /\ eng' = [eng EXCEPT ![t] = [pc |-> "plan", plan |-> plan, idx |-> 1, results |-> <<>>]]
    /\ eret' = [eret EXCEPT ![t] = NoReturn]
    /\ UNCHANGED <<now, componentVars, audio_repair_attempts, audio_history>>
    /\ RepairFrame

\* execute_plan: one iteration of `for item in plan`
ExecutePlanStep(t) ==
    /\ eng[t].pc = "plan"
    /\ eng[t].idx <= Len(eng[t].plan)
    /\ \E o \in Dispatch(eng[t].plan[eng[t].idx], World) :
          /\ SetWorld(o.w)
          /\ eng' = [eng EXCEPT ![t].idx = @ + 1, ![t].results = @ \o o.res]
    /\ UNCHANGED <<lock, eret, n_runs>>
    /\ RepairFrame

\* create_snapshot raises (mkdir, copy2 or rmtree fails) in the action of a plan
\* item: the worlds it can leave behind.  The actions call create_snapshot
\* before their try block, so nothing of the effect has happened; the snapshot
\* directory may or may not exist by then, and restart_audio_device has
\* already appended its attempt.  repair_mic_routine starts with
\* rebind_hotkeys.  An action without a snapshot step has no such world.
SnapshotRaises(action_name, w) ==
    LET pruned == PruneAttempts(w.attempts, w.clock)
        wa == [w EXCEPT !.attempts = Append(pruned, w.clock),
                        !.history = Append(@, [t |-> w.clock, result |-> "raised",
                                               message |-> "create_snapshot"])]
        label == IF action_name = "repair_mic_routine" THEN "rebind_hotkeys" ELSE action_name
    IN  IF action_name \in { "restart_asr", "switch_asr_to_cpu", "restart_tts", "rebind_hotkeys",
                             "repair_mic_routine" }
        THEN { w, CreateSnapshot(w, label) }
        ELSE IF action_name = "restart_audio_device" /\ Len(pruned) < AUDIO_REPAIR_MAX_ATTEMPTS
        THEN { wa, CreateSnapshot(wa, label) }
        ELSE {}

\* execute_plan: the action of the current item raises out of its snapshot
\* step.  Neither the action nor the loop of execute_plan handles it: the
\* exception leaves execute_plan, which returns nothing; `with` releases the lock.
ExecutePlanStepRaises(t) ==
    /\ eng[t].pc = "plan"
    /\ eng[t].idx <= Len(eng[t].plan)
    /\ \E w \in SnapshotRaises(eng[t].plan[eng[t].idx], World) : SetWorld(w)
    /\ eng' = [eng EXCEPT ![t] = Idle]
    /\ eret' = [eret EXCEPT ![t] = NoReturn]
    /\ lock' = "free"
    /\ UNCHANGED n_runs
    /\ RepairFrame

\* What execute_plan returns for the results its loop collected, and the
\* calls of escalate_to_autonomous_coder it made (history): it makes none.
ExecutePlanReturn(results) ==
    [returned |-> TRUE, results |-> results, escalations |-> <<>>]

\* execute_plan: the loop is over; the results are returned and the lock released
ExecutePlanEnd(t) ==
    /\ eng[t].pc = "plan"
    /\ eng[t].idx > Len(eng[t].plan)
    /\ eret' = [eret EXCEPT ![t] = ExecutePlanReturn(eng[t].results)]
    /\ eng' = [eng EXCEPT ![t] = Idle]
    /\ lock' = "free"
    /\ UNCHANGED <<now, componentVars, audio_repair_attempts, audio_history, n_runs>>
    /\ RepairFrame

\* escalate_to_autonomous_coder(issue, failed_actions): a snapshot, then the
\* autonomous coder is asked for a fix with the failed names in its context.
EscalateToAutonomousCoder(w, failed_actions) ==
    LET ws == CreateSnapshot(w, "autonomous_fix")
        snap == SnapshotPath(w.clock, "autonomous_fix")
    IN  { Outcome(ws, << RepairAction("autonomous_fix", r, "autonomous coder", snap) >>) :
            r \in { "success", "failed" } }

\* execute_plan_with_autonomy, a module-level function that is not a method of
\* RepairEngine and that nothing calls: for the results execute_plan returned,
\* the returns it would produce.
ExecutePlanWithAutonomy(w, results) ==
    LET failures == SelectSeq(results, LAMBDA r : r.result = "failed")
        failed_actions == [i \in 1..Len(failures) |-> failures[i].name]
    IN  IF Len(failures) >= 2
        THEN { [returned |-> TRUE, results |-> results \o o.res,
                escalations |-> << failed_actions >>] :
                 o \in EscalateToAutonomousCoder(w, failed_actions) }
        ELSE { [returned |-> TRUE, results |-> results, escalations |-> <<>>] }

\* MainController._handle_repair_command "fix_mic": repair_mic_routine is called
\* directly (not under the engine's lock); its results are dropped.
UserFixMic(max_runs) ==
    /\ eng["user"].pc = "idle"
    /\ n_runs < max_runs
    /\ n_runs' = n_runs + 1
    /\ \E o \in RepairMicRoutine(World) : SetWorld(o.w)
    /\ UNCHANGED <<lock, eng, eret>>
    /\ RepairFrame

(***************************************************************************)
(* core/repair_engine.py : restart_audio_device entered by two threads.    *)
(* The module global _audio_repair_attempts is read, pruned, checked and   *)
(* appended to in separate statements and under no lock of its own: the    *)
(* poll thread comes through execute_plan, which holds the engine's lock,  *)
(* the user's thread through repair_mic_routine, which does not.           *)
(***************************************************************************)
RadIdle == [pc |-> "idle", t |-> 0, results |-> <<>>]

InitRad == rad = [th \in Threads |-> RadIdle]

RadFrame ==
    UNCHANGED <<approvalVars, gitVars, updateVars, watchdogVars, plannerVars, coderVars, monitorVars,
                schedVars, gateVars, lifeVars, windowVars>>

\* The other steps of repair_mic_routine have no part in the breaker: of their
\* outcomes the ones in which every step succeeds are followed
Succeeding(outcomes) ==
    { o \in outcomes : \A i \in 1..Len(o.res) : o.res[i].result = "success" }

\* _on_auto_repair: execute_plan(["restart_audio_device"]) takes the lock and
\* calls restart_audio_device
RadPollEnters(max_runs) ==
    /\ rad["poll"].pc = "idle"
    /\ lock = "free"
    /\ n_runs < max_runs
    /\ n_runs' = n_runs + 1
    /\ lock' = "poll"
    /\ eng' = [eng EXCEPT !["poll"] = [pc |-> "plan", plan |-> << "restart_audio_device" >>,
                                       idx |-> 1, results |-> <<>>]]
    /\ eret' = [eret EXCEPT !["poll"] = NoReturn]
    /\ rad' = [rad EXCEPT !["poll"].pc = "prune"]
    /\ UNCHANGED <<now, componentVars, audio_repair_attempts, audio_history>>
    /\ RadFrame

\* _handle_repair_command "fix_mic": repair_mic_routine runs rebind_hotkeys and
\* reset_ptt_state and calls restart_audio_device
RadUserEnters(max_runs) ==
    /\ rad["user"].pc = "idle"
    /\ n_runs < max_runs
    /\ n_runs' = n_runs + 1
    /\ \E o \in Succeeding(Then(RebindHotkeys(World), ResetPttState)) :
          /\ SetWorld(o.w)
          /\ rad' = [rad EXCEPT !["user"] = [pc |-> "prune", t |-> 0, results |-> o.res]]
    /\ UNCHANGED <<lock, eng, eret>>
    /\ RadFrame

\* restart_audio_device, lines 240-242: now = time.time() and the global list
\* is replaced by its entries younger than the cooldown
RadPrune(th) ==
    /\ rad[th].pc = "prune"
    /\ audio_repair_attempts' = PruneAttempts(audio_repair_attempts, now)
    /\ rad' = [rad EXCEPT ![th].pc = "check", ![th].t = now]
    /\ UNCHANGED <<now, componentVars, audio_history, lock, eng, eret, n_runs>>
    /\ RadFrame

\* restart_audio_device, lines 244-258: the circuit breaker's check; an open
\* breaker disables auto-repair in .env and returns a skipped action
RadCheck(th) ==
    /\ rad[th].pc = "check"
    /\ IF Len(audio_repair_attempts) >= AUDIO_REPAIR_MAX_ATTEMPTS
       THEN /\ dotenv' = [dotenv EXCEPT !.auto_repair = IF @ = "true" THEN "false" ELSE @]
            /\ audio_history' = Append(audio_history,
                                       [t |-> rad[th].t, result |-> "skipped",
                                        message |-> "Circuit breaker: too many attempts"])
            /\ rad' = [rad EXCEPT ![th].pc = "return",
                                  ![th].results = Append(@, RepairAction("restart_audio_device", "skipped",
                                                             "Circuit breaker: too many attempts",
                                                             NoSnapshot))]
       ELSE /\ rad' = [rad EXCEPT ![th].pc = "append"]
            /\ UNCHANGED <<dotenv, audio_history>>
    /\ UNCHANGED <<now, asr, tts, keyboard, avatar, snapshots, audio_repair_attempts, lock, eng, eret,
                   n_runs>>
    /\ RadFrame

\* restart_audio_device, line 260: _audio_repair_attempts.append(now)
RadAppend(th) ==
    /\ rad[th].pc = "append"
    /\ audio_repair_attempts' = Append(audio_repair_attempts, rad[th].t)
    /\ rad' = [rad EXCEPT ![th].pc = "device"]
    /\ UNCHANGED <<now, componentVars, audio_history, lock, eng, eret, n_runs>>
    /\ RadFrame

\* restart_audio_device, lines 262-290: the snapshot, and the search for a
\* working input device, which finds one or does not
RadDevice(th) ==
    /\ rad[th].pc = "device"
    /\ \E found \in BOOLEAN :
          LET result == IF found THEN "success" ELSE "failed"
              message == IF found THEN "Using device" ELSE "No working input device found"
          IN  /\ audio_history' = Append(audio_history,
                                         [t |-> rad[th].t, result |-> result, message |-> message])
              /\ rad' = [rad EXCEPT ![th].pc = "return",
                                    ![th].results =
                                        Append(@, RepairAction("restart_audio_device", result, message,
                                                               SnapshotPath(now, "restart_audio_device")))]
    /\ snapshots' = CreateSnapshot(World, "restart_audio_device").snapshots
    /\ UNCHANGED <<now, asr, tts, keyboard, avatar, dotenv, audio_repair_attempts, lock, eng, eret,
                   n_runs>>
    /\ RadFrame

\* restart_audio_device has returned: execute_plan returns its results and
\* releases the lock; repair_mic_routine goes on with switch_asr_to_cpu,
\* restart_asr and _test_mic
RadReturn(th) ==
    /\ rad[th].pc = "return"
    /\ rad' = [rad EXCEPT ![th] = RadIdle]
    /\ IF th = "poll"
       THEN /\ eret' = [eret EXCEPT ![th] = ExecutePlanReturn(rad[th].results)]
            /\ eng' = [eng EXCEPT ![th] = Idle]
            /\ lock' = "free"
            /\ UNCHANGED <<now, componentVars, audio_repair_attempts, audio_history>>
       ELSE /\ \E o \in Succeeding(Then(Then(SwitchAsrToCpu(World), RestartAsr0), TestMic)) :
                  SetWorld(o.w)
            /\ UNCHANGED <<lock, eng, eret>>
    /\ UNCHANGED n_runs
    /\ RadFrame

\* ---- the circuit breaker under its two callers
MaxRadCalls == 4
MaxNowRad == 600

TickRad ==
    /\ now + AUDIO_REPAIR_COOLDOWN_MINUTES * 60 <= MaxNowRad
    /\ now' = now + AUDIO_REPAIR_COOLDOWN_MINUTES * 60
    /\ UNCHANGED <<componentVars, repairVars, radVars>>
    /\ RadFrame

NextRad ==
    \/ RadPollEnters(MaxRadCalls)
    \/ RadUserEnters(MaxRadCalls)
    \/ \E th \in Threads : RadPrune(th)
    \/ \E th \in Threads : RadCheck(th)
    \/ \E th \in Threads : RadAppend(th)
    \/ \E th \in Threads : RadDevice(th)
    \/ \E th \in Threads : RadReturn(th)
    \/ TickRad

(***************************************************************************)
(* core/git_helper.py                                                      *)
(***************************************************************************)
MAX_COMMITS_PER_HOUR == 3
MAX_LINES_PER_COMMIT == 500
SecondsPerDay == 86400

\* timedelta.seconds of the difference of two datetimes, later - earlier: the
\* seconds within the day; the days are a separate field that is not read.
TimedeltaSeconds(later, earlier) == (later - earlier) % SecondsPerDay

\* str(Path(f)): a leading "./" is dropped
RECURSIVE PathStr(_)
PathStr(f) ==
    IF Len(f) >= 2 /\ f[1] = "." /\ f[2] = "/" THEN PathStr(SubSeq(f, 3, Len(f))) ELSE f

\* Path(f).name: what follows the last "/"
PathName(f) ==
    LET slashes == { i \in 1..Len(f) : f[i] = "/" }
        last == IF slashes = {} THEN 0 ELSE CHOOSE i \in slashes : \A j \in slashes : j <= i
    IN  SubSeq(f, last + 1, Len(f))

\* The lines of `git status --porcelain`: XY, a space, the path
PorcelainLines(tree) == [i \in 1..Len(tree) |-> tree[i].xy \o << " " >> \o tree[i].path]

\* _run returns stdout.strip(): the first line loses its leading blanks, the
\* last one its trailing blanks.
RunStripped(lines) ==
    IF lines = <<>> THEN <<>>
    ELSE LET first == [lines EXCEPT ![1] = LStrip(@)]
         IN  [first EXCEPT ![Len(first)] = RStrip(@)]

\* parts = line[3:].split(" -> "); parts[-1]
AfterLastArrow(x) ==
    LET arrows == { i \in 1..(Len(x) - 3) : SubSeq(x, i, i + 3) = << " ", "-", ">", " " >> }
        last == IF arrows = {} THEN 0 ELSE CHOOSE i \in arrows : \A j \in arrows : j <= i
    IN  IF last = 0 THEN x ELSE SubSeq(x, last + 4, Len(x))

\* get_changed_files
GetChangedFiles(tree) ==
    LET lines == SelectSeq(RunStripped(PorcelainLines(tree)), LAMBDA l : Strip(l) # <<>>)
    IN  [i \in 1..Len(lines) |-> Strip(AfterLastArrow(SubSeq(lines[i], 4, Len(lines[i]))))]

\* The files `git diff` reports: tracked files with changes that are not staged
Unstaged(tree) == SelectSeq(tree, LAMBDA e : e.xy[2] = "M")

RECURSIVE Insertions(_)
Insertions(entries) ==
    IF entries = <<>> THEN 0 ELSE Head(entries).ins + Insertions(Tail(entries))

RECURSIVE Deletions(_)
Deletions(entries) ==
    IF entries = <<>> THEN 0 ELSE Head(entries).del + Deletions(Tail(entries))

\* get_diff_stats()["total_lines"]: insertions + deletions of `git diff --numstat`
DiffStatsTotalLines(tree) ==
    Insertions(Unstaged(tree)) + Deletions(Unstaged(tree))

\* commit_patch's line count: every all-digit word of the summary line of
\* `git diff --stat` ("N files changed, I insertions(+), D deletions(-)") is
\* added up, the number of files included; a part whose count is 0 is absent.
DiffStatDigitSum(tree) ==
    LET u == Unstaged(tree)
        i == Insertions(u)
        d == Deletions(u)
    IN  IF u = <<>> THEN 0 ELSE Len(u) + i + d

\* `git add`: the entries named (all of them for `git add -A`) become staged;
\* ins and del stay the inserted and deleted lines of the entry's change
StagedXY(xy) == IF xy = << "?", "?" >> THEN << "A", " " >> ELSE << xy[IF xy[1] = " " THEN 2 ELSE 1], " " >>
GitAdd(tree, files) ==
    [i \in 1..Len(tree) |->
        IF files = <<>> \/ \E k \in 1..Len(files) : PathStr(files[k]) = tree[i].path
        THEN [tree[i] EXCEPT !.xy = StagedXY(@)]
        ELSE tree[i]]

IsStaged(e) == e.xy[1] # " " /\ e.xy[1] # "?"

\* A call of git_helper and what it returned; hash 0 stands for the empty
\* string. For validate_diff_before_commit the expected files it was given and
\* the working tree it saw are kept with the return (history).
\* The files whose contents the model follows, and their contents in the
\* first commit
RepoFiles == { "f", "g", "h" }
BaseTree == [x \in RepoFiles |-> IF x = "g" THEN 0 ELSE 1]

\* A commit object: its first and second parent (0: none) and its tree
Commit(parent, parent2, tree) == [parent |-> parent, parent2 |-> parent2, tree |-> tree]

NoGitCall ==
    [op |-> "none", args |-> <<>>, tree |-> <<>>, ok |-> FALSE, hash |-> 0, reason |-> "",
     unexpected |-> <<>>]

InitGit ==
    /\ commit_timestamps = <<>>
    /\ worktree = <<>>
    /\ commits = << Commit(0, 0, BaseTree) >>
    /\ head = 1
    /\ git_actions = <<>>
    /\ gret = NoGitCall
    /\ commit_history = <<>>

GitFrame == UNCHANGED <<now, approvalVars, componentVars, repairVars, updateVars, watchdogVars, otherVars>>

\* The rate limit's pruning: the timestamps whose age, read as
\* (now - t).seconds, is under an hour
PruneCommitTimestamps(timestamps, t) ==
    SelectSeq(timestamps, LAMBDA x : TimedeltaSeconds(t, x) < 3600)

CommitReturn(files, hash, ok) ==
    [op |-> "commit_patch", args |-> <<>>, tree |-> <<>>, ok |-> ok, hash |-> hash,
     reason |-> "", unexpected |-> <<>>]

\* commit_patch(msg, files); files = <<>> stands for None. git_ok: whether
\* `git commit` succeeds when something is staged.
CommitPatch(files, git_ok) ==
    LET pruned == PruneCommitTimestamps(commit_timestamps, now)
        lines_changed == DiffStatDigitSum(worktree)
        staged == GitAdd(worktree, files)
        note(what) ==
            Append(commit_history,
                   [t |-> now, outcome |-> what, ok |-> gret'.ok, hash |-> gret'.hash])
    IN  /\ commit_timestamps' = IF Len(pruned) < MAX_COMMITS_PER_HOUR
                                   /\ lines_changed <= MAX_LINES_PER_COMMIT
                                   /\ staged # <<>>
                                   /\ git_ok /\ \E i \in 1..Len(staged) : IsStaged(staged[i])
                                THEN Append(pruned, now)
                                ELSE pruned
        /\ IF Len(pruned) >= MAX_COMMITS_PER_HOUR
           THEN /\ gret' = CommitReturn(files, 0, FALSE)
                /\ commit_history' = note("rate_limited")
                /\ UNCHANGED <<worktree, commits, head>>
           ELSE IF lines_changed > MAX_LINES_PER_COMMIT
           THEN /\ gret' = CommitReturn(files, 0, FALSE)
                /\ commit_history' = note("too_large")
                /\ UNCHANGED <<worktree, commits, head>>
           ELSE IF staged = <<>>
           THEN /\ gret' = CommitReturn(files, head, TRUE)
                /\ commit_history' = note("nothing_to_commit")
                /\ UNCHANGED <<worktree, commits, head>>
           ELSE IF git_ok /\ \E i \in 1..Len(staged) : IsStaged(staged[i])
           THEN /\ commits' = Append(commits, Commit(head, 0, commits[head].tree))
                /\ head' = Len(commits) + 1
                /\ worktree' = SelectSeq(staged, LAMBDA e : ~IsStaged(e))
                /\ gret' = CommitReturn(files, Len(commits) + 1, TRUE)
                /\ commit_history' = note("committed")
           ELSE /\ worktree' = staged
                /\ gret' = CommitReturn(files, 0, FALSE)
                /\ commit_history' = note("commit_failed")
                /\ UNCHANGED <<commits, head>>
        /\ UNCHANGED git_actions
        /\ GitFrame

\* The entries of expected_files that a changed file matches the way the code
\* matches: by file name, by normalised path, or as a string suffix
IsUnexpected(f, expected_files) ==
    LET expected_set == { PathName(PathStr(expected_files[k])) : k \in 1..Len(expected_files) }
        expected_paths == { PathStr(expected_files[k]) : k \in 1..Len(expected_files) }
    IN  /\ PathName(PathStr(f)) \notin expected_set
        /\ PathStr(f) \notin expected_paths
        /\ ~ \E k \in 1..Len(expected_files) : EndsWith(PathStr(f), expected_files[k])

ValidateReturn(expected_files, ok, reason, unexpected) ==
    [op |-> "validate_diff_before_commit", args |-> expected_files, tree |-> worktree,
     ok |-> ok, hash |-> 0, reason |-> reason, unexpected |-> unexpected]

\* validate_diff_before_commit(expected_files)
ValidateDiffBeforeCommit(expected_files) ==
    LET changed == GetChangedFiles(worktree)
        unexpected == SelectSeq(changed, LAMBDA f : IsUnexpected(f, expected_files))
        total_lines == DiffStatsTotalLines(worktree)
    IN  /\ IF changed = <<>>
           THEN /\ gret' = ValidateReturn(expected_files, FALSE, "No changes detected", <<>>)
                /\ UNCHANGED git_actions
           ELSE IF unexpected # <<>>
           THEN /\ gret' = ValidateReturn(expected_files, FALSE, "Unexpected files modified", unexpected)
                /\ git_actions' = Append(git_actions, "diff_validation_failed")
           ELSE IF total_lines > MAX_LINES_PER_COMMIT
           THEN /\ gret' = ValidateReturn(expected_files, FALSE, "Diff too large", <<>>)
                /\ UNCHANGED git_actions
           ELSE /\ gret' = ValidateReturn(expected_files, TRUE, "Valid", <<>>)
                /\ git_actions' = Append(git_actions, "diff_validated")
        /\ UNCHANGED <<commit_timestamps, worktree, commits, head, commit_history>>
        /\ GitFrame

\* Someone (the autonomous coder, the user) edits files: the working tree
\* becomes another one of `trees`.
EditWorkTree(trees) ==
    /\ worktree' \in trees \ { worktree }
    /\ UNCHANGED <<commit_timestamps, commits, head, git_actions, gret, commit_history>>
    /\ GitFrame

(***************************************************************************)
(* core/self_update.py : SelfUpdater                                       *)
(***************************************************************************)
SELF_UPDATE_ENABLED == TRUE
SELF_UPDATE_AUTO_ROLLBACK == TRUE
SELF_UPDATE_KEEP_SNAPSHOTS == 14
NOTIFY_DETAILS_LIMIT == 500

\* SELF_UPDATE_AUTO_APPLY_WINDOW "00:00-23:59", as minutes of the day
SELF_UPDATE_AUTO_APPLY_WINDOW == [start |-> 0, end |-> (23 * 60) + 59]

Min(a, b) == IF a <= b THEN a ELSE b

\* is_in_maintenance_window at clock time t (seconds): the time of day is
\* compared with the window's minutes
IsInMaintenanceWindow(t) ==
    LET tod == t % SecondsPerDay
        start == SELF_UPDATE_AUTO_APPLY_WINDOW.start * 60
        end == SELF_UPDATE_AUTO_APPLY_WINDOW.end * 60
    IN  IF start <= end
        THEN start <= tod /\ tod <= end
        ELSE tod >= start \/ tod <= end

\* The commits reachable from c
RECURSIVE Ancestors(_, _)
Ancestors(cs, c) ==
    IF c = 0 THEN {}
    ELSE { c } \cup Ancestors(cs, cs[c].parent) \cup Ancestors(cs, cs[c].parent2)

\* The merge base of two commits (commits are numbered in creation order)
MergeBase(cs, a, b) ==
    LET common == Ancestors(cs, a) \cap Ancestors(cs, b)
    IN  CHOOSE c \in common : \A d \in common : d <= c

\* `git diff --name-only a b`: the files whose contents differ
DiffNames(cs, a, b) == { x \in RepoFiles : cs[a].tree[x] # cs[b].tree[x] }

\* A text of which only the origin and the length are followed
Text(of, len) == [of |-> of, len |-> len]
NoText == Text("", 0)

\* text[:n]
Truncate(text, n) == Text(text.of, Min(text.len, n))

Notification(event, summary, details) ==
    [event |-> event, summary |-> summary, details |-> details]

\* The checkout and what the flow has emitted so far, as one value
Checkout ==
    [commits |-> commits, head |-> head, files |-> workfiles, stash |-> stash,
     origin_main |-> origin_main, snapshots |-> snapshots, notes |-> <<>>]

\* prune_old_snapshots: of the zip files sorted newest first, those after the
\* first SELF_UPDATE_KEEP_SNAPSHOTS are deleted.
PruneOldSnapshots(store) ==
    LET n == Len(store)
        zips == { i \in 1..n : store[i].kind = "zip" }
        newer(i) == Cardinality({ j \in zips : j > i })
        F[i \in 0..n] ==
            IF i = 0 THEN <<>>
            ELSE IF i \in zips /\ newer(i) >= SELF_UPDATE_KEEP_SNAPSHOTS
                 THEN F[i - 1] ELSE Append(F[i - 1], store[i])
    IN  F[n]

\* Writing a file of the snapshot directory: a file of that name is replaced
WriteSnapshotFile(store, entry) ==
    Append(SelectSeq(store, LAMBDA e : e.path # entry.path), entry)

\* check_for_updates
CheckForUpdates(u, fetch_ok) ==
    LET noted == [u EXCEPT !.notes = Append(@, Notification("update_check", "Checking for updates", NoText))]
        fetched == [noted EXCEPT !.origin_main = remote_main]
        changed == DiffNames(fetched.commits, fetched.head, fetched.origin_main)
    IN  IF ~fetch_ok
        THEN [u |-> noted, has_updates |-> FALSE, changed |-> {}, remote_sha |-> 0]
        ELSE [u |-> fetched, has_updates |-> changed # {}, changed |-> changed,
              remote_sha |-> fetched.origin_main]

\* create_backup: a zip of the working tree and a metadata file, then pruning
BackupPath(t) == << t, "repo_backup.zip" >>
CreateBackup(u, t) ==
    LET zip == [kind |-> "zip", path |-> BackupPath(t), content |-> u.files]
        meta == [kind |-> "json", path |-> << t, "metadata.json" >>]
    IN  [u EXCEPT !.snapshots = PruneOldSnapshots(WriteSnapshotFile(WriteSnapshotFile(@, zip), meta))]

\* `git stash`: uncommitted changes of tracked files are put away
GitStash(u) ==
    IF u.files = u.commits[u.head].tree THEN u
    ELSE [u EXCEPT !.stash = Append(@, u.files), !.files = u.commits[u.head].tree]

\* `git merge origin/main --no-edit` on a clean tree
GitMerge(u, merge_ok) ==
    LET cs == u.commits
        ours == u.head
        theirs == u.origin_main
        base == MergeBase(cs, ours, theirs)
        conflicts == { x \in RepoFiles : /\ cs[ours].tree[x] # cs[base].tree[x]
                                         /\ cs[theirs].tree[x] # cs[base].tree[x]
                                         /\ cs[ours].tree[x] # cs[theirs].tree[x] }
        merged == [x \in RepoFiles |->
                     IF cs[ours].tree[x] = cs[base].tree[x] THEN cs[theirs].tree[x]
                     ELSE cs[ours].tree[x]]
    IN  IF ~merge_ok THEN [u |-> u, success |-> FALSE]
        ELSE IF theirs \in Ancestors(cs, ours)
        THEN [u |-> u, success |-> TRUE]
        ELSE IF ours \in Ancestors(cs, theirs)
        THEN [u |-> [u EXCEPT !.head = theirs, !.files = cs[theirs].tree], success |-> TRUE]
        ELSE IF conflicts # {}
        THEN [u |-> [u EXCEPT !.files = [x \in RepoFiles |-> IF x \in conflicts THEN 99 ELSE merged[x]]],
              success |-> FALSE]
        ELSE [u |-> [u EXCEPT !.commits = Append(cs, Commit(ours, theirs, merged)),
                              !.head = Len(cs) + 1,
                              !.files = merged],
              success |-> TRUE]

\* apply_update: stash, then merge
ApplyUpdate(u, merge_ok) == GitMerge(GitStash(u), merge_ok)

\* run_smoke_tests: tests is "none" (no test file exists), "pass" or "fail"
RunSmokeTests(tests, out_len) ==
    IF tests = "none" THEN [passed |-> TRUE, ran |-> FALSE, output |-> Text("No tests", 8)]
    ELSE [passed |-> tests = "pass", ran |-> TRUE, output |-> Text("pytest", out_len)]

\* `git reset --hard HEAD~1`: fails when HEAD has no parent
GitResetHardParent(u) ==
    IF u.commits[u.head].parent = 0 THEN u
    ELSE [u EXCEPT !.head = u.commits[u.head].parent,
                   !.files = u.commits[u.commits[u.head].parent].tree]

\* rollback(backup_path): the zip is extracted over the working tree
Rollback(u, backup_path, restore_ok) ==
    LET found == { i \in 1..Len(u.snapshots) : u.snapshots[i].path = backup_path }
        zip == u.snapshots[CHOOSE i \in found : TRUE]
    IN  IF found = {} \/ ~restore_ok THEN u
        ELSE [u EXCEPT !.files = [x \in RepoFiles |-> IF zip.content[x] # 0 THEN zip.content[x] ELSE @[x]],
                       !.notes = Append(@, Notification("rollback_done", "Rolled back to previous version",
                                                        Text("backup_path", 1)))]

UpdateResult(success, message, tests_passed, changes, backup_path, deferred, commit_sha) ==
    [success |-> success, message |-> message, tests_passed |-> tests_passed, changes |-> changes,
     backup_path |-> backup_path, deferred |-> deferred, commit_sha |-> commit_sha]

NoUpdateRun ==
    [returned |-> FALSE, result |-> UpdateResult(FALSE, "", FALSE, {}, <<>>, FALSE, 0),
     last |-> "NOT_RUN", merged |-> FALSE, tests_ran |-> FALSE, test_output |-> NoText,
     restore_ok |-> TRUE, head_before |-> 0, merge_parents |-> <<0, 0>>, backup |-> BaseTree,
     head_after |-> 0, files_after |-> BaseTree, notes |-> <<>>, fetch |-> "none"]

InitUpdate ==
    /\ workfiles = BaseTree
    /\ stash = <<>>
    /\ origin_main = 1
    /\ remote_main = 1
    /\ notifications = <<>>
    /\ last_run_result = "NOT_RUN"
    /\ uret = NoUpdateRun
    /\ n_flows = 0

\* (the caller of the flow states what becomes of the scheduler's variables)
UpdateFrame ==
    UNCHANGED <<approvalVars, repairVars, watchdogVars, plannerVars, coderVars, monitorVars, gateVars,
                radVars, lifeVars, windowVars, commit_timestamps, worktree, git_actions, gret,
                commit_history>>

\* What one run of run_full_autonomy_flow does: the checkout afterwards, the
\* UpdateResult, _last_run_result
FlowOutcome(force, fetch_ok, merge_ok, tests, out_len, restore_ok) ==
    LET u0 == Checkout
        chk == CheckForUpdates(u0, fetch_ok)
        ub == CreateBackup(chk.u, now)
        app == ApplyUpdate(ub, merge_ok)
        tst == RunSmokeTests(tests, out_len)
        back == IF SELF_UPDATE_AUTO_ROLLBACK
                THEN Rollback(GitResetHardParent(app.u), BackupPath(now), restore_ok)
                ELSE app.u
        done(u, last, result, merged, tests_ran) ==
            [u |-> u, last |-> last, result |-> result, merged |-> merged, tests_ran |-> tests_ran,
             backup |-> u0.files, merge_parents |-> << u0.head, chk.u.origin_main >>]
        note(u, n) == [u EXCEPT !.notes = Append(@, n)]
    IN  IF ~SELF_UPDATE_ENABLED
        THEN done(u0, "DISABLED", UpdateResult(FALSE, "Self-update disabled", FALSE, {}, <<>>, FALSE, 0),
                  FALSE, FALSE)
        ELSE IF ~force /\ ~IsInMaintenanceWindow(now)
        THEN done(u0, "DEFERRED", UpdateResult(TRUE, "Deferred - outside window", FALSE, {}, <<>>, TRUE, 0),
                  FALSE, FALSE)
        ELSE IF ~chk.has_updates
        THEN done(chk.u, "NO_UPDATES", UpdateResult(TRUE, "Already up to date", TRUE, {}, <<>>, FALSE, 0),
                  FALSE, FALSE)
        ELSE IF ~app.success
        THEN done(note(app.u, Notification("update_failed", "Merge failed", Text("merge", 1))),
                  "MERGE_FAILED",
                  UpdateResult(FALSE, "merge output", FALSE, chk.changed, BackupPath(now), FALSE, chk.remote_sha),
                  FALSE, FALSE)
        ELSE IF ~tst.passed
        THEN done(note(back, Notification("update_failed", "Tests failed, rolled back",
                                          Truncate(tst.output, NOTIFY_DETAILS_LIMIT))),
                  "TESTS_FAILED",
                  UpdateResult(FALSE, "Tests failed, rolled back", FALSE, chk.changed, BackupPath(now),
                               FALSE, chk.remote_sha),
                  TRUE, tst.ran)
        ELSE done(note(app.u, Notification("update_applied", "Update applied", Text("commit", 1))),
                  "OK",
                  UpdateResult(TRUE, "Update successful", TRUE, chk.changed, BackupPath(now),
                               FALSE, chk.remote_sha),
                  TRUE, tst.ran)

\* run_full_autonomy_flow(force)
RunFullAutonomyFlow(force, fetch_ok, merge_ok, tests, out_len, restore_ok) ==
    \E o \in { FlowOutcome(force, fetch_ok, merge_ok, tests, out_len, restore_ok) } :
        /\ commits' = o.u.commits
        /\ head' = o.u.head
        /\ workfiles' = o.u.files
        /\ stash' = o.u.stash
        /\ origin_main' = o.u.origin_main
        /\ snapshots' = o.u.snapshots
        /\ notifications' = notifications \o o.u.notes
        /\ last_run_result' = o.last
        /\ uret' = [returned |-> TRUE, result |-> o.result, last |-> o.last, merged |-> o.merged,
                    tests_ran |-> o.tests_ran,
                    test_output |-> IF o.last = "TESTS_FAILED" THEN Text("pytest", out_len) ELSE NoText,
                    restore_ok |-> restore_ok, head_before |-> head,
                    merge_parents |-> o.merge_parents, backup |-> o.backup,
                    head_after |-> o.u.head, files_after |-> o.u.files, notes |-> o.u.notes,
                    fetch |-> IF o.last \in { "DISABLED", "DEFERRED" } THEN "none"
                              ELSE IF fetch_ok THEN "ok" ELSE "failed"]
        /\ n_flows' = n_flows + 1
        /\ UNCHANGED <<now, remote_main, asr, tts, keyboard, avatar, dotenv>>
        /\ UpdateFrame

\* Someone pushes a commit that changes file x to the remote's main branch
RemotePush(x) ==
    /\ commits' = Append(commits, Commit(remote_main, 0, [commits[remote_main].tree EXCEPT ![x] = @ + 1]))
    /\ remote_main' = Len(commits) + 1
    /\ UNCHANGED <<now, head, workfiles, stash, origin_main, notifications, last_run_result, uret, n_flows,
                   componentVars>>
    /\ UpdateFrame

\* The user edits file x in the working tree, without committing
LocalEdit(x) ==
    /\ workfiles = commits[head].tree
    /\ workfiles' = [workfiles EXCEPT ![x] = @ + 10]
    /\ UNCHANGED <<now, commits, head, stash, origin_main, remote_main, notifications, last_run_result,
                   uret, n_flows, componentVars>>
    /\ UpdateFrame

\* The user commits the edits of the working tree
LocalCommit ==
    /\ workfiles # commits[head].tree
    /\ commits' = Append(commits, Commit(head, 0, workfiles))
    /\ head' = Len(commits) + 1
    /\ UNCHANGED <<now, workfiles, stash, origin_main, remote_main, notifications, last_run_result,
                   uret, n_flows, componentVars>>
    /\ UpdateFrame

\* ---- the update flow
MaxFlows == 2
MaxCommits == 4
MaxNowUpdate == 60
TestOutputLens == { 40, 500, 620 }

TickUpdate ==
    /\ now + 60 <= MaxNowUpdate
    /\ now' = now + 60
    /\ UNCHANGED <<approvalVars, componentVars, repairVars, gitVars, updateVars, watchdogVars, otherVars>>

\* What the environment decides during one flow. A choice that cannot matter
\* is fixed: without a fetch nothing is merged, without a merge nothing is
\* tested, and only failing tests have an output to report and a restore.
FlowEnvs ==
    { e \in [force : BOOLEAN, fetch_ok : BOOLEAN, merge_ok : BOOLEAN, restore_ok : BOOLEAN,
             tests : { "none", "pass", "fail" }, out_len : TestOutputLens] :
        /\ ~e.fetch_ok => e.merge_ok
        /\ ~e.merge_ok => e.tests = "pass"
        /\ e.tests # "fail" => e.restore_ok /\ e.out_len = 40 }

NextUpdate ==
    \/ \E e \in FlowEnvs :
          /\ n_flows < MaxFlows
          /\ Len(commits) < MaxCommits
          /\ RunFullAutonomyFlow(e.force, e.fetch_ok, e.merge_ok, e.tests, e.out_len, e.restore_ok)
          /\ UNCHANGED schedVars
    \/ \E x \in { "f", "g" } : Len(commits) < MaxCommits /\ RemotePush(x) /\ UNCHANGED schedVars
    \/ \E x \in { "f", "h" } : LocalEdit(x) /\ UNCHANGED schedVars
    \/ Len(commits) < MaxCommits /\ LocalCommit /\ UNCHANGED schedVars
    \/ TickUpdate

\* ---- the background scheduler (_monitor_loop) and the command line
SELF_UPDATE_AUTO_APPLY == TRUE
SELF_UPDATE_CHECK_INTERVAL == 3600

InitScheduler ==
    /\ sched_pc = "ready"
    /\ flow_calls = <<>>

\* (variant) the loop starts the flow whatever the time of day
SchedulerStarts_IgnoresWindow(t) == SELF_UPDATE_AUTO_APPLY

\* _monitor_loop: the condition under which a pass starts the flow
SchedulerStarts(t) == SELF_UPDATE_AUTO_APPLY /\ IsInMaintenanceWindow(t)

\* A call of run_full_autonomy_flow(force) by `by`, with its entry in the
\* history: when it was made, how it ended and whether it left the checkout,
\* the snapshots and the notifications as they were
CallFlow(by, force, e) ==
    /\ RunFullAutonomyFlow(force, e.fetch_ok, e.merge_ok, e.tests, e.out_len, e.restore_ok)
    /\ flow_calls' =
          Append(flow_calls,
                 [by |-> by, force |-> force, t |-> now, last |-> uret'.last,
                  deferred |-> uret'.result.deferred,
                  untouched |-> <<commits', head', workfiles', stash', origin_main', snapshots',
                                  notifications'>>
                                = <<commits, head, workfiles, stash, origin_main, snapshots,
                                    notifications>>])

\* One pass of the loop of _monitor_loop, up to its sleep
MonitorLoopPass(e) ==
    /\ sched_pc = "ready"
    /\ sched_pc' = "sleeping"
    /\ IF SchedulerStarts(now)
       THEN CallFlow("scheduler", FALSE, e)
       ELSE /\ UNCHANGED <<now, gitVars, updateVars, componentVars, flow_calls>>
            /\ UpdateFrame

\* _monitor_loop: the sleep of SELF_UPDATE_CHECK_INTERVAL seconds
SchedulerSleep(max_now) ==
    /\ sched_pc = "sleeping"
    /\ now + SELF_UPDATE_CHECK_INTERVAL <= max_now
    /\ now' = now + SELF_UPDATE_CHECK_INTERVAL
    /\ sched_pc' = "ready"
    /\ UNCHANGED <<gitVars, updateVars, componentVars, flow_calls>>
    /\ UpdateFrame

\* main(): --check-now and --enable-full-autonomy run the flow unforced,
\* --apply-now runs it forced
CommandFlow(force, e) ==
    /\ CallFlow("command", force, e)
    /\ UNCHANGED sched_pc

MaxNowScheduler == 90000
MaxSchedulerFlows == 3
\* 23:59:00, the last second of the window, and 23:59:30, outside it
SchedulerTimes == { 86340, 86370 }
\* (force is an argument of the call, so one value of the field is enough)
SchedulerEnvs == { e \in FlowEnvs : e.fetch_ok /\ e.restore_ok /\ e.out_len = 40 /\ e.force }

TickScheduler ==
    \E t \in SchedulerTimes :
        /\ now < t
        /\ now' = t
        /\ UNCHANGED <<approvalVars, componentVars, repairVars, gitVars, updateVars, watchdogVars, otherVars>>

NextScheduler ==
    \/ \E e \in SchedulerEnvs :
          n_flows < MaxSchedulerFlows /\ Len(commits) < MaxCommits /\ MonitorLoopPass(e)
    \/ SchedulerSleep(MaxNowScheduler)
    \/ \E force \in BOOLEAN : \E e \in SchedulerEnvs :
          n_flows < MaxSchedulerFlows /\ Len(commits) < MaxCommits /\ CommandFlow(force, e)
    \/ \E x \in { "f" } : Len(commits) < MaxCommits /\ RemotePush(x) /\ UNCHANGED schedVars
    \/ TickScheduler

(***************************************************************************)
(* core/watchdog.py : Watchdog                                             *)
(***************************************************************************)
\* The messages of the component checks, as texts (a number or a name put into
\* a message is written N)
CheckMessages ==
    [ mic_no_frames |->
        << "N", "o", " ", "a", "u", "d", "i", "o", " ", "f", "r", "a", "m", "e", "s", " ", "f",
          "o", "r", " ", "N", " ", "s", " ", "w", "h", "i", "l", "e", " ", "r", "e", "c", "o",
          "r", "d", "i", "n", "g" >>,
      mic_ok |->
        << "M", "i", "c", "r", "o", "p", "h", "o", "n", "e", " ", "O", "K" >>,
      asr_not_initialized |->
        << "A", "S", "R", " ", "n", "o", "t", " ", "i", "n", "i", "t", "i", "a", "l", "i", "z",
          "e", "d" >>,
      asr_not_loaded |->
        << "A", "S", "R", " ", "m", "o", "d", "e", "l", " ", "n", "o", "t", " ", "l", "o", "a",
          "d", "e", "d" >>,
      asr_cublas |->
        << "C", "U", "D", "A", " ", "c", "u", "b", "l", "a", "s", " ", "l", "i", "b", "r", "a",
          "r", "y", " ", "m", "i", "s", "s", "i", "n", "g", " ", "-", " ", "n", "e", "e", "d",
          " ", "C", "P", "U", " ", "f", "a", "l", "l", "b", "a", "c", "k" >>,
      asr_latency |->
        << "H", "i", "g", "h", " ", "t", "r", "a", "n", "s", "c", "r", "i", "p", "t", "i", "o",
          "n", " ", "l", "a", "t", "e", "n", "c", "y", ":", " ", "N", " ", "s" >>,
      asr_ready |->
        << "A", "S", "R", " ", "r", "e", "a", "d", "y", " ", "(", "N", " ", "o", "n", " ", "N", ")" >>,
      tts_not_initialized |->
        << "T", "T", "S", " ", "n", "o", "t", " ", "i", "n", "i", "t", "i", "a", "l", "i", "z",
          "e", "d" >>,
      tts_no_engine |->
        << "T", "T", "S", " ", "e", "n", "g", "i", "n", "e", " ", "n", "o", "t", " ", "a", "v",
          "a", "i", "l", "a", "b", "l", "e" >>,
      tts_too_fast |->
        << "T", "T", "S", " ", "p", "l", "a", "y", "b", "a", "c", "k", " ", "t", "o", "o", " ",
          "f", "a", "s", "t", " ", "-", " ", "a", "u", "d", "i", "o", " ", "m", "a", "y", " ",
          "n", "o", "t", " ", "b", "e", " ", "p", "l", "a", "y", "i", "n", "g" >>,
      tts_ready |->
        << "T", "T", "S", " ", "r", "e", "a", "d", "y" >>,
      keyboard_not_initialized |->
        << "K", "e", "y", "b", "o", "a", "r", "d", " ", "l", "i", "s", "t", "e", "n", "e", "r",
          " ", "n", "o", "t", " ", "i", "n", "i", "t", "i", "a", "l", "i", "z", "e", "d" >>,
      keyboard_not_running |->
        << "K", "e", "y", "b", "o", "a", "r", "d", " ", "l", "i", "s", "t", "e", "n", "e", "r",
          " ", "n", "o", "t", " ", "r", "u", "n", "n", "i", "n", "g" >>,
      hotkeys_registered |->
        << "H", "o", "t", "k", "e", "y", "s", " ", "r", "e", "g", "i", "s", "t", "e", "r", "e",
          "d" >>,
      avatar_not_initialized |->
        << "A", "v", "a", "t", "a", "r", " ", "n", "o", "t", " ", "i", "n", "i", "t", "i", "a",
          "l", "i", "z", "e", "d" >>,
      avatar_not_connected |->
        << "A", "v", "a", "t", "a", "r", " ", "n", "o", "t", " ", "c", "o", "n", "n", "e", "c",
          "t", "e", "d", " ", "(", "o", "p", "t", "i", "o", "n", "a", "l", ")" >>,
      avatar_connected |->
        << "A", "v", "a", "t", "a", "r", " ", "c", "o", "n", "n", "e", "c", "t", "e", "d" >>,
      ptt_stuck |->
        << "P", "T", "T", " ", "n", "o", "t", " ", "r", "e", "a", "d", "y", " ", "a", "n", "d",
          " ", "n", "o", "t", " ", "r", "e", "c", "o", "r", "d", "i", "n", "g", " ", "-", " ",
          "m", "a", "y", " ", "b", "e", " ", "s", "t", "u", "c", "k" >>,
      ptt_ready |->
        << "P", "T", "T", " ", "r", "e", "a", "d", "y" >>,
      ptt_recording |->
        << "P", "T", "T", " ", "r", "e", "c", "o", "r", "d", "i", "n", "g" >> ]

Messages == { CheckMessages[k] : k \in DOMAIN CheckMessages }

\* For each message: whether "cublas" / "too fast" is in message.lower()
MessageMentions ==
    [msg \in Messages |->
        [cublas |-> Contains(<< "c", "u", "b", "l", "a", "s" >>, Lower(msg)),
         too_fast |-> Contains(<< "t", "o", "o", " ", "f", "a", "s", "t" >>, Lower(msg))]]

ComponentHealth(name, status, message) == [name |-> name, status |-> status, message |-> message]

RECURSIVE SumSeq(_)
SumSeq(q) == IF q = <<>> THEN 0 ELSE Head(q) + SumSeq(Tail(q))

\* _check_mic_alive
CheckMicAlive ==
    IF /\ asr # <<>>
       /\ asr[1].recording
       /\ (last_mic_frame_time = 0 \/ now - last_mic_frame_time > 2)
    THEN ComponentHealth("microphone", "failed", CheckMessages.mic_no_frames)
    ELSE ComponentHealth("microphone", "healthy", CheckMessages.mic_ok)

\* _check_asr_ready; the average latency sum/len is over 10 when sum > 10 * len
CheckAsrReady ==
    IF asr = <<>> THEN ComponentHealth("asr", "unknown", CheckMessages.asr_not_initialized)
    ELSE IF ~asr[1].model THEN ComponentHealth("asr", "failed", CheckMessages.asr_not_loaded)
    ELSE IF asr[1].last_error_cublas THEN ComponentHealth("asr", "degraded", CheckMessages.asr_cublas)
    ELSE IF transcription_latencies # <<>>
            /\ SumSeq(transcription_latencies) > 10 * Len(transcription_latencies)
    THEN ComponentHealth("asr", "degraded", CheckMessages.asr_latency)
    ELSE ComponentHealth("asr", "healthy", CheckMessages.asr_ready)

\* _check_tts_ready; _last_duration is in tenths of a second
CheckTtsReady ==
    IF tts = <<>> THEN ComponentHealth("tts", "unknown", CheckMessages.tts_not_initialized)
    ELSE IF ~tts[1].engine THEN ComponentHealth("tts", "failed", CheckMessages.tts_no_engine)
    ELSE IF tts[1].last_duration < 5 THEN ComponentHealth("tts", "degraded", CheckMessages.tts_too_fast)
    ELSE ComponentHealth("tts", "healthy", CheckMessages.tts_ready)

\* _check_hotkeys_registered
CheckHotkeysRegistered ==
    IF keyboard = <<>> THEN ComponentHealth("hotkeys", "unknown", CheckMessages.keyboard_not_initialized)
    ELSE IF ~keyboard[1].running THEN ComponentHealth("hotkeys", "failed", CheckMessages.keyboard_not_running)
    ELSE ComponentHealth("hotkeys", "healthy", CheckMessages.hotkeys_registered)

\* _check_avatar_connected
CheckAvatarConnected ==
    IF avatar = <<>> THEN ComponentHealth("avatar", "unknown", CheckMessages.avatar_not_initialized)
    ELSE IF ~avatar[1].ws THEN ComponentHealth("avatar", "degraded", CheckMessages.avatar_not_connected)
    ELSE ComponentHealth("avatar", "healthy", CheckMessages.avatar_connected)

\* _check_ptt_ready
CheckPttReady ==
    IF asr = <<>> THEN ComponentHealth("ptt", "unknown", CheckMessages.asr_not_initialized)
    ELSE IF ~asr[1].ready_for_ptt /\ ~asr[1].recording
    THEN ComponentHealth("ptt", "degraded", CheckMessages.ptt_stuck)
    ELSE ComponentHealth("ptt", "healthy", IF asr[1].ready_for_ptt THEN CheckMessages.ptt_ready ELSE CheckMessages.ptt_recording)

\* The six checks in the order run_diagnostics makes them
Checks ==
    << CheckMicAlive, CheckAsrReady, CheckTtsReady, CheckHotkeysRegistered,
       CheckAvatarConnected, CheckPttReady >>

\* (variant) a component of unknown status degrades the overall status
OverallStatus_UnknownDegrades(statuses) ==
    IF "failed" \in statuses THEN "failed"
    ELSE IF "degraded" \in statuses \/ "unknown" \in statuses THEN "degraded"
    ELSE "healthy"

\* The overall status for the statuses of the checks
OverallStatus(statuses) ==
    IF "failed" \in statuses THEN "failed"
    ELSE IF "degraded" \in statuses THEN "degraded"
    ELSE "healthy"

\* What the scan appends to the recommendations for one check
RecommendationsFor(c) ==
    IF c.status = "failed"
    THEN IF c.name = "asr"
         THEN << "restart_asr" >> \o (IF MessageMentions[c.message].cublas
                                      THEN << "switch_asr_to_cpu" >> ELSE <<>>)
         ELSE IF c.name = "microphone" THEN << "restart_audio_device" >>
         ELSE IF c.name = "tts" THEN << "restart_tts" >>
         ELSE IF c.name = "hotkeys" THEN << "rebind_hotkeys" >>
         ELSE IF c.name = "ptt" THEN << "reset_ptt_state" >>
         ELSE <<>>
    ELSE IF c.status = "degraded"
    THEN (IF MessageMentions[c.message].cublas THEN << "switch_asr_to_cpu" >> ELSE <<>>)
         \o (IF MessageMentions[c.message].too_fast THEN << "restart_tts" >> ELSE <<>>)
    ELSE <<>>

\* The recommendations in the order the scan of the checks appends them
RECURSIVE ScanRecommendations(_)
ScanRecommendations(checks) ==
    IF checks = <<>> THEN <<>>
    ELSE RecommendationsFor(Head(checks)) \o ScanRecommendations(Tail(checks))

\* The issues the scan collects
Issues(checks) == SelectSeq(checks, LAMBDA c : c.status \in { "failed", "degraded" })

\* (variant) each key once, the most recently inserted first
RECURSIVE DictFromKeys_NewestFirst(_)
DictFromKeys_NewestFirst(q) ==
    IF q = <<>> THEN <<>>
    ELSE LET rest == DictFromKeys_NewestFirst(SubSeq(q, 1, Len(q) - 1))
             last == q[Len(q)]
         IN  IF \E i \in 1..Len(rest) : rest[i] = last THEN rest ELSE << last >> \o rest

\* list(dict.fromkeys(q)): each key once, in the order of first insertion
RECURSIVE DictFromKeys(_)
DictFromKeys(q) ==
    IF q = <<>> THEN <<>>
    ELSE LET rest == DictFromKeys(SubSeq(q, 1, Len(q) - 1))
             last == q[Len(q)]
         IN  IF \E i \in 1..Len(rest) : rest[i] = last THEN rest ELSE Append(rest, last)

NoReport ==
    [timestamp |-> 0, components |-> <<>>, overall_status |-> "none", issues |-> <<>>,
     recommendations |-> <<>>]

InitWatchdog ==
    /\ last_mic_frame_time = 0
    /\ transcription_latencies = <<>>
    /\ last_diagnostics = NoReport
    /\ scanned = <<>>
    /\ n_events = 0

WatchdogFrame == UNCHANGED <<approvalVars, repairVars, gitVars, updateVars, otherVars, dotenv, snapshots>>

\* The DiagnosticReport run_diagnostics builds from the results of the checks
DiagnosticReport(checks, t) ==
    [timestamp |-> t,
     components |-> checks,
     overall_status |-> OverallStatus({ checks[i].status : i \in 1..Len(checks) }),
     issues |-> Issues(checks),
     recommendations |-> DictFromKeys(ScanRecommendations(checks))]

\* run_diagnostics
RunDiagnostics ==
    LET checks == Checks
    IN  /\ last_diagnostics' = DiagnosticReport(checks, now)
        /\ scanned' = ScanRecommendations(checks)
        /\ UNCHANGED <<now, asr, tts, keyboard, avatar, last_mic_frame_time, transcription_latencies,
                       n_events>>
        /\ WatchdogFrame

\* record_mic_frame (time.time() is never 0)
RecordMicFrame ==
    /\ now > 0
    /\ last_mic_frame_time' = now
    /\ UNCHANGED <<now, asr, tts, keyboard, avatar, transcription_latencies, last_diagnostics,
                   scanned, n_events>>
    /\ WatchdogFrame

\* record_transcription(latency): the last ten latencies are kept
RecordTranscription(latency) ==
    /\ transcription_latencies' =
          LET appended == Append(transcription_latencies, latency)
          IN  IF Len(appended) > 10 THEN Tail(appended) ELSE appended
    /\ UNCHANGED <<now, asr, tts, keyboard, avatar, last_mic_frame_time, last_diagnostics,
                   scanned, n_events>>
    /\ WatchdogFrame

\* What can happen to a component that is present
ComponentEvents ==
    { "asr_model_lost", "asr_cublas_error", "asr_not_ready", "asr_recording",
      "tts_engine_lost", "tts_played_fast", "keyboard_stopped", "avatar_disconnected" }

ComponentEvent(ev) ==
    /\ asr' = IF asr = <<>> THEN asr
              ELSE IF ev = "asr_model_lost" THEN << [asr[1] EXCEPT !.model = FALSE] >>
              ELSE IF ev = "asr_cublas_error" THEN << [asr[1] EXCEPT !.last_error_cublas = TRUE] >>
              ELSE IF ev = "asr_not_ready" THEN << [asr[1] EXCEPT !.ready_for_ptt = FALSE] >>
              ELSE IF ev = "asr_recording" THEN << [asr[1] EXCEPT !.recording = TRUE] >>
              ELSE asr
    /\ tts' = IF tts = <<>> THEN tts
              ELSE IF ev = "tts_engine_lost" THEN << [tts[1] EXCEPT !.engine = FALSE] >>
              ELSE IF ev = "tts_played_fast" THEN << [tts[1] EXCEPT !.last_duration = 1] >>
              ELSE tts
    /\ keyboard' = IF keyboard # <<>> /\ ev = "keyboard_stopped"
                   THEN << [keyboard[1] EXCEPT !.running = FALSE] >> ELSE keyboard
    /\ avatar' = IF avatar # <<>> /\ ev = "avatar_disconnected"
                 THEN << [avatar[1] EXCEPT !.ws = FALSE] >> ELSE avatar
    /\ <<asr', tts', keyboard', avatar'>> # <<asr, tts, keyboard, avatar>>
    /\ n_events' = n_events + 1
    /\ UNCHANGED <<now, last_mic_frame_time, transcription_latencies, last_diagnostics, scanned>>
    /\ WatchdogFrame

\* ---- the watchdog's diagnostics
MaxEvents == 3
MaxLatencies == 2
MaxNowWatchdog == 4
Latencies == { 2, 30 }

TickWatchdog ==
    \E d \in { 1, 3 } :
        /\ now + d <= MaxNowWatchdog
        /\ now' = now + d
        /\ UNCHANGED <<approvalVars, componentVars, repairVars, gitVars, updateVars, watchdogVars, otherVars>>

NextWatchdog ==
    \/ RunDiagnostics
    \/ RecordMicFrame
    \/ \E latency \in Latencies :
          Len(transcription_latencies) < MaxLatencies /\ RecordTranscription(latency)
    \/ \E ev \in ComponentEvents : n_events < MaxEvents /\ ComponentEvent(ev)
    \/ TickWatchdog

(***************************************************************************)
(* core/self_heal_planner.py : SelfHealPlanner                             *)
(***************************************************************************)
AUTO_SAFE_ACTIONS ==
    { "reset_ptt_state", "rebind_hotkeys", "restart_tts", "restart_audio_device",
      "switch_asr_to_cpu", "restart_asr", "reconnect_avatar", "repair_mic_routine" }

REQUIRE_APPROVAL ==
    { "run_git_self_update", "restart_assistant_process", "factory_reset", "modify_code" }

MAX_AUTO_ACTIONS == 5
DEFAULT_PRIORITY == 10

\* priority_map of create_plan
PriorityMap ==
    [ reset_ptt_state |-> 1, rebind_hotkeys |-> 2, restart_audio_device |-> 3,
      switch_asr_to_cpu |-> 4, restart_asr |-> 5, restart_tts |-> 6, reconnect_avatar |-> 7,
      repair_mic_routine |-> 0 ]

\* priority_map.get(rec, 10)
Priority(rec) == IF rec \in DOMAIN PriorityMap THEN PriorityMap[rec] ELSE DEFAULT_PRIORITY

\* rec.replace("_", " ") for the action ids of the model, as texts
ActionWords ==
    [ reset_ptt_state |-> << "r", "e", "s", "e", "t", " ", "p", "t", "t", " ", "s", "t", "a", "t", "e" >>,
      rebind_hotkeys |-> << "r", "e", "b", "i", "n", "d", " ", "h", "o", "t", "k", "e", "y", "s" >>,
      restart_tts |-> << "r", "e", "s", "t", "a", "r", "t", " ", "t", "t", "s" >>,
      restart_audio_device |-> << "r", "e", "s", "t", "a", "r", "t", " ", "a", "u", "d", "i", "o", " ", "d", "e", "v",
           "i", "c", "e" >>,
      switch_asr_to_cpu |-> << "s", "w", "i", "t", "c", "h", " ", "a", "s", "r", " ", "t", "o", " ", "c", "p",
           "u" >>,
      restart_asr |-> << "r", "e", "s", "t", "a", "r", "t", " ", "a", "s", "r" >>,
      reconnect_avatar |-> << "r", "e", "c", "o", "n", "n", "e", "c", "t", " ", "a", "v", "a", "t", "a", "r" >>,
      repair_mic_routine |-> << "r", "e", "p", "a", "i", "r", " ", "m", "i", "c", " ", "r", "o", "u", "t", "i", "n",
           "e" >>,
      modify_code |-> << "m", "o", "d", "i", "f", "y", " ", "c", "o", "d", "e" >>,
      clear_cache |-> << "c", "l", "e", "a", "r", " ", "c", "a", "c", "h", "e" >> ]

\* mappings of _matches_issue
IssueKeywords ==
    [ restart_asr |->
        << << "a", "s", "r" >>,
           << "t", "r", "a", "n", "s", "c", "r", "i", "p", "t", "i", "o", "n" >>,
           << "s", "p", "e", "e", "c", "h", " ", "r", "e", "c", "o", "g", "n", "i", "t", "i",
              "o", "n" >>,
           << "c", "u", "b", "l", "a", "s" >> >>,
      switch_asr_to_cpu |->
        << << "c", "u", "d", "a" >>,
           << "c", "u", "b", "l", "a", "s" >>,
           << "g", "p", "u" >>,
           << "l", "a", "t", "e", "n", "c", "y" >> >>,
      restart_tts |->
        << << "t", "t", "s" >>,
           << "s", "p", "e", "e", "c", "h" >>,
           << "p", "l", "a", "y", "b", "a", "c", "k" >>,
           << "a", "u", "d", "i", "o" >> >>,
      restart_audio_device |->
        << << "m", "i", "c", "r", "o", "p", "h", "o", "n", "e" >>,
           << "m", "i", "c" >>,
           << "a", "u", "d", "i", "o", " ", "f", "r", "a", "m", "e" >>,
           << "r", "e", "c", "o", "r", "d", "i", "n", "g" >> >>,
      rebind_hotkeys |->
        << << "h", "o", "t", "k", "e", "y" >>,
           << "k", "e", "y", "b", "o", "a", "r", "d" >>,
           << "l", "i", "s", "t", "e", "n", "e", "r" >> >>,
      reset_ptt_state |->
        << << "p", "t", "t" >>,
           << "r", "e", "c", "o", "r", "d", "i", "n", "g" >>,
           << "s", "t", "u", "c", "k" >> >>,
      reconnect_avatar |->
        << << "a", "v", "a", "t", "a", "r" >>,
           << "v", "t", "u", "b", "e" >>,
           << "w", "e", "b", "s", "o", "c", "k", "e", "t" >> >> ]

\* The names of the components, as texts
ComponentNameText ==
    [ microphone |-> << "m", "i", "c", "r", "o", "p", "h", "o", "n", "e" >>,
      asr |-> << "a", "s", "r" >>,
      tts |-> << "t", "t", "s" >>,
      hotkeys |-> << "h", "o", "t", "k", "e", "y", "s" >>,
      avatar |-> << "a", "v", "a", "t", "a", "r" >>,
      ptt |-> << "p", "t", "t" >> ]

\* f"{c.name}: {c.message}", the text run_diagnostics appends to the issues
IssueText(c) == ComponentNameText[c.name] \o << ":", " " >> \o c.message

\* _matches_issue(action, issue)
MatchesIssue(action, issue) ==
    /\ action \in DOMAIN IssueKeywords
    /\ \E k \in 1..Len(IssueKeywords[action]) : Contains(IssueKeywords[action][k], Lower(issue))

DetectedIssue ==
    << "D", "e", "t", "e", "c", "t", "e", "d", " ", "i", "s", "s", "u", "e" >>

\* The issue texts run_diagnostics can produce
IssueTexts ==
    { IssueText(ComponentHealth(p[1], "failed", p[2])) :
        p \in { << "microphone", CheckMessages.mic_no_frames >>,
                << "asr", CheckMessages.asr_not_loaded >>,
                << "asr", CheckMessages.asr_cublas >>,
                << "asr", CheckMessages.asr_latency >>,
                << "tts", CheckMessages.tts_no_engine >>,
                << "tts", CheckMessages.tts_too_fast >>,
                << "hotkeys", CheckMessages.keyboard_not_running >>,
                << "avatar", CheckMessages.avatar_not_connected >>,
                << "ptt", CheckMessages.ptt_stuck >> } }

\* For each action id, the issue texts create_plan accepts as its reason:
\* rec.replace("_", " ") in issue.lower() or self._matches_issue(rec, issue)
IssuesNaming ==
    [rec \in DOMAIN ActionWords |->
        { issue \in IssueTexts :
            \/ Contains(ActionWords[rec], Lower(issue))
            \/ MatchesIssue(rec, issue) }]

\* The reason create_plan attaches to a recommendation: the first issue that
\* holds the action's words or one of its keywords
ReasonFor(rec, issues) ==
    LET hits == { i \in 1..Len(issues) : issues[i] \in IssuesNaming[rec] }
    IN  IF hits = {} THEN DetectedIssue
        ELSE issues[CHOOSE i \in hits : \A j \in hits : i <= j]

RepairPlanItem(action, reason, auto, priority) ==
    [action |-> action, reason |-> reason, auto |-> auto, priority |-> priority]

\* (variant) an ascending sort that puts an item before the items of its own
\* priority
RECURSIVE SortByPriority_Unstable(_)
SortByPriority_Unstable(plan) ==
    IF plan = <<>> THEN <<>>
    ELSE LET rest == SortByPriority_Unstable(SubSeq(plan, 1, Len(plan) - 1))
             last == plan[Len(plan)]
             keep == SelectSeq(rest, LAMBDA p : p.priority < last.priority)
             move == SelectSeq(rest, LAMBDA p : p.priority >= last.priority)
         IN  keep \o << last >> \o move

\* plan.sort(key=lambda x: x.priority): a stable sort, ascending
RECURSIVE SortByPriority(_)
SortByPriority(plan) ==
    IF plan = <<>> THEN <<>>
    ELSE LET rest == SortByPriority(SubSeq(plan, 1, Len(plan) - 1))
             last == plan[Len(plan)]
             keep == SelectSeq(rest, LAMBDA p : p.priority <= last.priority)
             move == SelectSeq(rest, LAMBDA p : p.priority > last.priority)
         IN  keep \o << last >> \o move

\* (variant) the cap lets one more automatic item through
LimitAutoActions_OneMore(plan) ==
    LET autos(i) == Cardinality({ j \in 1..i : plan[j].auto })
    IN  IF autos(Len(plan)) > MAX_AUTO_ACTIONS
        THEN [i \in 1..Len(plan) |->
                 IF plan[i].auto /\ autos(i) > MAX_AUTO_ACTIONS + 1
                 THEN [plan[i] EXCEPT !.auto = FALSE] ELSE plan[i]]
        ELSE plan

\* The cap on automatic items: in plan order, the automatic items after the
\* first MAX_AUTO_ACTIONS get auto = False
LimitAutoActions(plan) ==
    LET autos(i) == Cardinality({ j \in 1..i : plan[j].auto })
    IN  IF autos(Len(plan)) > MAX_AUTO_ACTIONS
        THEN [i \in 1..Len(plan) |->
                 IF plan[i].auto /\ autos(i) > MAX_AUTO_ACTIONS
                 THEN [plan[i] EXCEPT !.auto = FALSE] ELSE plan[i]]
        ELSE plan

\* create_plan(report)
CreatePlan(report) ==
    LET recs == report.recommendations
        items == [i \in 1..Len(recs) |->
                    RepairPlanItem(recs[i], ReasonFor(recs[i], report.issues),
                                   recs[i] \in AUTO_SAFE_ACTIONS, Priority(recs[i]))]
    IN  LimitAutoActions(SortByPriority(items))

\* (variant) every item of the plan is handed on as automatic
GetAutoPlan_All(report) ==
    LET plan == CreatePlan(report)
    IN  [i \in 1..Len(plan) |->
            [action |-> plan[i].action, reason |-> plan[i].reason, auto |-> plan[i].auto]]

\* get_auto_plan(report): the automatic items, as dicts for the repair engine
GetAutoPlan(report) ==
    LET autos == SelectSeq(CreatePlan(report), LAMBDA p : p.auto)
    IN  [i \in 1..Len(autos) |->
            [action |-> autos[i].action, reason |-> autos[i].reason, auto |-> autos[i].auto]]

\* get_approval_needed(report): the items that are not automatic, as dicts
GetApprovalNeeded(report) ==
    LET asks == SelectSeq(CreatePlan(report), LAMBDA p : ~p.auto)
    IN  [i \in 1..Len(asks) |->
            [action |-> asks[i].action, reason |-> asks[i].reason, auto |-> asks[i].auto]]

\* items: what create_plan returned; handed: what _on_auto_repair or the
\* "fix yourself" command gave to execute_plan; approval: what
\* get_approval_needed returned
NoPlan == [returned |-> FALSE, items |-> <<>>,
           repaired |-> FALSE, handed |-> <<>>, asked |-> FALSE, approval |-> <<>>]

InitPlanner ==
    /\ planner_report = [recommendations |-> <<>>, issues |-> <<>>]
    /\ planner_plan = NoPlan

\* ---- create_plan on any report
MaxRecommendations == 9

\* The action ids a report may name: the automatic ones, one that needs
\* approval and one the planner does not know; in the order in which the
\* reports of the model list them (a report may also name one action twice)
RecommendationOrder ==
    << "clear_cache", "modify_code", "reconnect_avatar", "restart_tts", "restart_asr",
       "switch_asr_to_cpu", "restart_audio_device", "rebind_hotkeys", "reset_ptt_state",
       "repair_mic_routine" >>

OrderIndex(rec) == CHOOSE i \in 1..Len(RecommendationOrder) : RecommendationOrder[i] = rec

PlannerIssueLists ==
    { << IssueText(ComponentHealth("asr", "degraded", CheckMessages.asr_cublas)),
         IssueText(ComponentHealth("tts", "degraded", CheckMessages.tts_too_fast)) >>,
      << IssueText(ComponentHealth("hotkeys", "failed", CheckMessages.keyboard_not_running)) >> }

PlannerFrame ==
    UNCHANGED <<now, approvalVars, componentVars, repairVars, gitVars, updateVars, watchdogVars,
                coderVars, monitorVars, laterVars>>

\* A report is put together: its issues, then its recommendations one by one
ReportIssues(issues) ==
    /\ ~planner_plan.returned
    /\ planner_report = [recommendations |-> <<>>, issues |-> <<>>]
    /\ planner_report' = [planner_report EXCEPT !.issues = issues]
    /\ UNCHANGED planner_plan
    /\ PlannerFrame

ReportRecommendation(rec) ==
    LET recs == planner_report.recommendations
    IN  /\ ~planner_plan.returned
        /\ Len(recs) < MaxRecommendations
        /\ recs # <<>> =>
              \/ OrderIndex(recs[Len(recs)]) < OrderIndex(rec)
              \/ /\ recs[Len(recs)] = rec
                 /\ \A i, j \in 1..Len(recs) : recs[i] = recs[j] => i = j
        /\ planner_report' = [planner_report EXCEPT !.recommendations = Append(recs, rec)]
        /\ UNCHANGED planner_plan
        /\ PlannerFrame

CreatePlanCall ==
    /\ ~planner_plan.returned
    /\ planner_plan' = [planner_plan EXCEPT !.returned = TRUE,
                                            !.items = CreatePlan(planner_report)]
    /\ UNCHANGED planner_report
    /\ PlannerFrame

\* _on_auto_repair(report) and the "fix_yourself" command, for the report a
\* plan was made of: auto_plan = get_auto_plan(report), and
\* execute_plan(auto_plan) when it has items
OnAutoRepair ==
    /\ planner_plan.returned
    /\ ~planner_plan.repaired
    /\ planner_plan' = [planner_plan EXCEPT !.repaired = TRUE,
                                            !.handed = GetAutoPlan(planner_report)]
    /\ UNCHANGED planner_report
    /\ PlannerFrame

\* get_approval_needed(report) for the same report
GetApprovalNeededCall ==
    /\ planner_plan.returned
    /\ ~planner_plan.asked
    /\ planner_plan' = [planner_plan EXCEPT !.asked = TRUE,
                                            !.approval = GetApprovalNeeded(planner_report)]
    /\ UNCHANGED planner_report
    /\ PlannerFrame

NextPlanner ==
    \/ \E issues \in PlannerIssueLists : ReportIssues(issues)
    \/ \E i \in 1..Len(RecommendationOrder) : ReportRecommendation(RecommendationOrder[i])
    \/ CreatePlanCall
    \/ OnAutoRepair
    \/ GetApprovalNeededCall

(***************************************************************************)
(* core/autonomous_coder.py : analyze_and_fix                              *)
(***************************************************************************)
\* A file name is the sequence of its directory and file names with the
\* separators between them
MainControllerPy == << "core", "/", "main_controller.py" >>

\* files_to_backup of create_snapshot
FilesToBackup ==
    << << ".env" >>,
       << "core", "/", "main_controller.py" >>,
       << "core", "/", "llm_brain.py" >>,
       << "core", "/", "autonomous_coder.py" >>,
       << "core", "/", "repair_engine.py" >>,
       << "core", "/", "self_update.py" >>,
       << "speech", "/", "asr.py" >>,
       << "speech", "/", "local_tts.py" >> >>

\* keyword_files of find_relevant_files, in the order of the dict
KeywordFiles ==
    << [keyword |-> << "t", "t", "s" >>,
        files |-> << << "speech", "/", "local_tts.py" >> >>],
       [keyword |-> << "s", "p", "e", "e", "c", "h" >>,
        files |-> << << "speech", "/", "asr.py" >>, << "speech", "/", "local_tts.py" >> >>],
       [keyword |-> << "a", "s", "r" >>,
        files |-> << << "speech", "/", "asr.py" >> >>],
       [keyword |-> << "w", "h", "i", "s", "p", "e", "r" >>,
        files |-> << << "speech", "/", "asr.py" >> >>],
       [keyword |-> << "k", "e", "y", "b", "o", "a", "r", "d" >>,
        files |-> << << "ui", "/", "keyboard.py" >> >>],
       [keyword |-> << "h", "o", "t", "k", "e", "y" >>,
        files |-> << << "ui", "/", "keyboard.py" >> >>],
       [keyword |-> << "p", "t", "t" >>,
        files |-> << << "ui", "/", "keyboard.py" >>, << "core", "/", "main_controller.py" >> >>],
       [keyword |-> << "a", "v", "a", "t", "a", "r" >>,
        files |-> << << "integrations", "/", "avatar.py" >> >>],
       [keyword |-> << "v", "t", "u", "b", "e" >>,
        files |-> << << "integrations", "/", "avatar.py" >> >>],
       [keyword |-> << "b", "r", "o", "w", "s", "e", "r" >>,
        files |-> << << "automation", "/", "browser_action.py" >> >>],
       [keyword |-> << "l", "l", "m" >>,
        files |-> << << "core", "/", "llm_brain.py" >> >>],
       [keyword |-> << "s", "e", "l", "f", "-", "h", "e", "a", "l" >>,
        files |-> << << "core", "/", "watchdog.py" >>, << "core", "/", "repair_engine.py" >> >>],
       [keyword |-> << "u", "p", "d", "a", "t", "e" >>,
        files |-> << << "core", "/", "self_update.py" >> >>],
       [keyword |-> << "m", "a", "i", "n" >>,
        files |-> << << "core", "/", "main_controller.py" >> >>] >>

\* The files of the project the model follows
CoderFiles ==
    { FilesToBackup[i] : i \in 1..Len(FilesToBackup) }
        \cup UNION { { KeywordFiles[k].files[i] : i \in 1..Len(KeywordFiles[k].files) } :
                       k \in 1..Len(KeywordFiles) }

\* f.replace("/", "_")
BackupName(f) == [i \in 1..Len(f) |-> IF f[i] = "/" THEN "_" ELSE f[i]]

\* The names of the files a snapshot directory can hold
BackupNames == { BackupName(f) : f \in CoderFiles }

\* The issue descriptions of the model, as texts
IssueDescriptions ==
    [ keyboard |->
        << "K", "e", "y", "b", "o", "a", "r", "d", " ", "l", "i", "s", "t", "e", "n", "e", "r",
           " ", "n", "o", "t", " ", "r", "u", "n", "n", "i", "n", "g" >>,
      tts |->
        << "T", "T", "S", " ", "p", "l", "a", "y", "b", "a", "c", "k", " ", "t", "o", "o", " ",
           "f", "a", "s", "t" >>,
      ptt |->
        << "P", "T", "T", " ", "s", "t", "u", "c", "k" >>,
      crash |->
        << "A", "s", "s", "i", "s", "t", "a", "n", "t", " ", "c", "r", "a", "s", "h", "e",
           "d" >> ]

\* For each issue description, the indexes of the keywords in issue.lower()
KeywordsIn ==
    [d \in DOMAIN IssueDescriptions |->
        { k \in 1..Len(KeywordFiles) :
            Contains(KeywordFiles[k].keyword, Lower(IssueDescriptions[d])) }]

\* The files of the keywords one after the other, each file once
RECURSIVE KeywordFileList(_, _)
KeywordFileList(ks, k) ==
    IF k > Len(KeywordFiles) THEN <<>>
    ELSE (IF k \in ks THEN KeywordFiles[k].files ELSE <<>>) \o KeywordFileList(ks, k + 1)

\* find_relevant_files(issue): the existing files of the keywords the issue
\* holds, in dict order; main_controller.py when there is none
FindRelevantFiles(d, files) ==
    LET named == DictFromKeys(KeywordFileList(KeywordsIn[d], 1))
        found == SelectSeq(named, LAMBDA f : files[f] # 0)
    IN  IF found # <<>> THEN found
        ELSE IF files[MainControllerPy] # 0 THEN << MainControllerPy >>
        ELSE <<>>

\* create_snapshot(label): the files of files_to_backup that exist are copied
\* into the directory of this second under their backup names
SnapshotDir(t, label) == << t, label >>
CoderCreateSnapshot(store, t, label, files) ==
    LET dir == SnapshotDir(t, label)
        old == IF dir \in DOMAIN store THEN store[dir] ELSE [n \in BackupNames |-> 0]
        copied == [n \in BackupNames |->
                     IF \E i \in 1..Len(FilesToBackup) :
                           BackupName(FilesToBackup[i]) = n /\ files[FilesToBackup[i]] # 0
                     THEN LET i == CHOOSE i \in 1..Len(FilesToBackup) :
                                      BackupName(FilesToBackup[i]) = n /\ files[FilesToBackup[i]] # 0
                          IN  files[FilesToBackup[i]]
                     ELSE old[n]]
    IN  [d \in DOMAIN store \cup { dir } |-> IF d = dir THEN copied ELSE store[d]]

\* apply_patch(patch_text, target_file): fails when the target does not exist
\* or the patch cannot be applied, else the file is written anew
ApplyPatch(files, target, patch) ==
    IF target \notin DOMAIN files \/ files[target] = 0 \/ ~patch.applies
    THEN [ok |-> FALSE, files |-> files]
    ELSE [ok |-> TRUE, files |-> [files EXCEPT ![target] = @ + patch.changes]]

\* revert_file(target_file, snapshot_dir): the copy of the file in the snapshot,
\* when there is one, is copied over the file
RevertFile(files, target, snapshot) ==
    IF snapshot[BackupName(target)] # 0
    THEN [ok |-> TRUE, files |-> [files EXCEPT ![target] = snapshot[BackupName(target)]]]
    ELSE [ok |-> FALSE, files |-> files]

FixResult(success, message, patch_applied, tests_passed, files_changed, rollback_performed) ==
    [success |-> success, message |-> message, patch_applied |-> patch_applied,
     tests_passed |-> tests_passed, files_changed |-> files_changed,
     rollback_performed |-> rollback_performed]

NoFix ==
    [returned |-> FALSE, result |-> FixResult(FALSE, "", FALSE, FALSE, <<>>, FALSE),
     target |-> <<>>, steps |-> <<>>, files_before |-> <<>>, files_after |-> <<>>,
     commits_before |-> 0, commits_after |-> 0, head_before |-> 0, head_after |-> 0]

InitCoder ==
    /\ project_files = [f \in CoderFiles |->
                          IF f \in { << "integrations", "/", "avatar.py" >>,
                                     << "automation", "/", "browser_action.py" >> }
                          THEN 0 ELSE 1]
    /\ coder_snapshots = << >>
    /\ patch_log = <<>>
    /\ fail_log = <<>>
    /\ cret = NoFix
    /\ n_fixes = 0

\* What analyze_and_fix(issue) does: the files afterwards, the snapshots, the
\* logs, the FixResult and the steps taken.  analysis is what analyze_error
\* answered, patch what generate_code_patch answered, tests the test run.
FixOutcome(d, analysis, patch, tests) ==
    LET context_files == FindRelevantFiles(d, project_files)
        target == IF analysis.target_file = <<>> \/ ~analysis.confident
                  THEN context_files[1] ELSE analysis.target_file
        store == CoderCreateSnapshot(coder_snapshots, now, "autofix", project_files)
        applied == ApplyPatch(project_files, target, patch)
        reverted == RevertFile(applied.files, target, store[SnapshotDir(now, "autofix")])
        base == [files |-> project_files, snapshots |-> coder_snapshots, patch_log |-> patch_log,
                 fail_log |-> fail_log, target |-> <<>>]
    IN  IF context_files = <<>>
        THEN [base EXCEPT !.target = <<>>] @@
             [result |-> FixResult(FALSE, "No relevant files found", FALSE, FALSE, <<>>, FALSE),
              steps |-> << "find_relevant_files" >>]
        ELSE IF ~patch.success
        THEN [base EXCEPT !.target = target] @@
             [result |-> FixResult(FALSE, "Patch generation failed", FALSE, FALSE, <<>>, FALSE),
              steps |-> << "find_relevant_files", "analyze_error", "generate_code_patch" >>]
        ELSE IF ~applied.ok
        THEN [base EXCEPT !.target = target, !.snapshots = store] @@
             [result |-> FixResult(FALSE, "Patch application failed", FALSE, FALSE, <<>>, FALSE),
              steps |-> << "find_relevant_files", "analyze_error", "generate_code_patch",
                           "explain_change", "create_snapshot", "apply_patch" >>]
        ELSE IF tests
        THEN [base EXCEPT !.target = target, !.snapshots = store, !.files = applied.files,
                          !.patch_log = Append(@, [action |-> "autofix", patch_files |-> << target >>,
                                                   tests_result |-> "PASSED", rollback |-> FALSE])] @@
             [result |-> FixResult(TRUE, "Fix applied successfully", TRUE, TRUE, << target >>, FALSE),
              steps |-> << "find_relevant_files", "analyze_error", "generate_code_patch",
                           "explain_change", "create_snapshot", "apply_patch", "run_tests",
                           "log_patch_action" >>]
        ELSE [base EXCEPT !.target = target, !.snapshots = store, !.files = reverted.files,
                          !.patch_log = Append(@, [action |-> "autofix_rollback",
                                                   patch_files |-> << target >>,
                                                   tests_result |-> "FAILED", rollback |-> TRUE]),
                          !.fail_log = Append(@, [issue |-> d, t |-> now])] @@
             [result |-> FixResult(FALSE, "Tests failed after patch, rolled back", TRUE, FALSE,
                                   << target >>, TRUE),
              steps |-> << "find_relevant_files", "analyze_error", "generate_code_patch",
                           "explain_change", "create_snapshot", "apply_patch", "run_tests",
                           "revert_file", "log_patch_action", "fail_log" >>]

CoderFrame ==
    UNCHANGED <<now, approvalVars, componentVars, repairVars, gitVars, updateVars, watchdogVars,
                plannerVars, monitorVars, laterVars>>

\* analyze_and_fix(issue_description); it calls no function of git_helper, so
\* the repository is after the call as it was before
AnalyzeAndFix(d, analysis, patch, tests, max_fixes) ==
    /\ n_fixes < max_fixes
    /\ \E o \in { FixOutcome(d, analysis, patch, tests) } :
          /\ project_files' = o.files
          /\ coder_snapshots' = o.snapshots
          /\ patch_log' = o.patch_log
          /\ fail_log' = o.fail_log
          /\ cret' = [returned |-> TRUE, result |-> o.result, target |-> o.target,
                      steps |-> o.steps, files_before |-> project_files, files_after |-> o.files,
                      commits_before |-> Len(commits), commits_after |-> Len(commits),
                      head_before |-> head, head_after |-> head]
    /\ n_fixes' = n_fixes + 1
    /\ CoderFrame

\* ---- analyze_and_fix
MaxFixes == 2
MaxNowCoder == 1

\* What analyze_error can answer: no target, or a file of the project, with a
\* confidence under or over 0.5
Analyses ==
    { [target_file |-> f, confident |-> c] :
        f \in { <<>>, << "ui", "/", "keyboard.py" >>, << "speech", "/", "asr.py" >>,
                << "core", "/", "watchdog.py" >>, << "integrations", "/", "avatar.py" >> },
        c \in BOOLEAN }

\* What generate_code_patch can answer: no patch, a patch that does not apply,
\* a patch that leaves the text as it is, a patch that changes it
Patches ==
    { [success |-> FALSE, applies |-> FALSE, changes |-> 0],
      [success |-> TRUE, applies |-> FALSE, changes |-> 0],
      [success |-> TRUE, applies |-> TRUE, changes |-> 0],
      [success |-> TRUE, applies |-> TRUE, changes |-> 1] }

TickCoder ==
    /\ now + 1 <= MaxNowCoder
    /\ now' = now + 1
    /\ UNCHANGED <<approvalVars, componentVars, repairVars, gitVars, updateVars, watchdogVars,
                   otherVars>>

NextCoder ==
    \/ \E d \in DOMAIN IssueDescriptions, analysis \in Analyses, patch \in Patches,
          tests \in BOOLEAN :
          AnalyzeAndFix(d, analysis, patch, tests, MaxFixes)
    \/ TickCoder

(***************************************************************************)
(* core/watchdog.py : Watchdog._poll_loop, MainController._on_auto_repair  *)
(***************************************************************************)
POLL_INTERVAL == 3

TrueText == << "t", "r", "u", "e" >>

\* The component whose attributes a check reads
CheckedComponent ==
    [ microphone |-> asr, asr |-> asr, tts |-> tts, hotkeys |-> keyboard, avatar |-> avatar,
      ptt |-> asr ]

CheckNames == << "microphone", "asr", "tts", "hotkeys", "avatar", "ptt" >>

NoCycle ==
    [t |-> 0, raised |-> "none", ran |-> <<>>, report |-> FALSE, called |-> FALSE]

InitMonitor ==
    /\ environ = [SELF_HEAL_AUTO_REPAIR |-> TrueText]
    /\ poll_pc = "ready"
    /\ poll_plan = <<>>
    /\ pret = NoCycle
    /\ callback_calls = <<>>
    /\ poll_errors = <<>>
    /\ repair_trace = <<>>
    /\ n_cycles = 0

MonitorFrame == UNCHANGED <<approvalVars, gitVars, updateVars, plannerVars, coderVars, laterVars>>

\* The report as _on_auto_repair's planner reads it: the issues are texts
PlannerReport(report) ==
    [recommendations |-> report.recommendations,
     issues |-> [i \in 1..Len(report.issues) |-> IssueText(report.issues[i])]]

\* _poll_loop, lines 428-429: the condition under which the repair callback is
\* called with the report (the controller has set the callback)
InvokesCallback_OnlyWhenFailed(report) ==
    /\ report.overall_status \in { "failed" }
    /\ Lower(environ.SELF_HEAL_AUTO_REPAIR) = TrueText

InvokesCallback(report) ==
    /\ report.overall_status \in { "failed", "degraded" }
    /\ Lower(environ.SELF_HEAL_AUTO_REPAIR) = TrueText

\* One pass of the loop of _poll_loop up to the repair callback.  raising is
\* the check that raises an exception in this pass ("none": no check does):
\* run_diagnostics has no handler, so the exception leaves it at once and the
\* handler of the loop logs a poll error.  Otherwise the report is stored and,
\* when it is failed or degraded and SELF_HEAL_AUTO_REPAIR reads "true" in the
\* process environment, the callback _on_auto_repair(report) is called, which
\* hands the automatic plan, when it has items, to execute_plan.
PollDiagnose(raising, max_cycles) ==
    LET idx == CHOOSE i \in 1..Len(CheckNames) : CheckNames[i] = raising
        report == DiagnosticReport(Checks, now)
        invoke == InvokesCallback(report)
        plan == GetAutoPlan(PlannerReport(report))
    IN  /\ poll_pc = "ready"
        /\ n_cycles < max_cycles
        /\ n_cycles' = n_cycles + 1
        /\ IF raising # "none"
           THEN /\ CheckedComponent[raising] # <<>>
                /\ pret' = [t |-> now, raised |-> raising, ran |-> SubSeq(CheckNames, 1, idx - 1),
                            report |-> FALSE, called |-> FALSE]
                /\ poll_errors' = Append(poll_errors, [t |-> now, check |-> raising])
                /\ poll_pc' = "sleep"
                /\ UNCHANGED <<last_diagnostics, scanned, callback_calls, poll_plan>>
           ELSE /\ pret' = [t |-> now, raised |-> "none", ran |-> CheckNames, report |-> TRUE,
                            called |-> invoke]
                /\ last_diagnostics' = report
                /\ scanned' = ScanRecommendations(Checks)
                /\ callback_calls' = IF invoke
                                     THEN Append(callback_calls,
                                                 [t |-> now, status |-> report.overall_status,
                                                  dotenv |-> dotenv.auto_repair])
                                     ELSE callback_calls
                /\ poll_plan' = IF invoke
                                THEN [i \in 1..Len(plan) |-> plan[i].action] ELSE <<>>
                /\ poll_pc' = IF invoke /\ plan # <<>> THEN "callback" ELSE "sleep"
                /\ UNCHANGED poll_errors
        /\ UNCHANGED <<now, componentVars, repairVars, environ, repair_trace, last_mic_frame_time,
                       transcription_latencies, n_events>>
        /\ MonitorFrame

\* _on_auto_repair: execute_plan(auto_plan) takes the lock
PollExecuteBegin(max_cycles) ==
    /\ poll_pc = "callback"
    /\ ExecutePlanBegin("poll", poll_plan, max_cycles)
    /\ poll_pc' = "executing"
    /\ UNCHANGED <<environ, poll_plan, pret, callback_calls, poll_errors, repair_trace, n_cycles>>

\* The entry of the trace for a repair action run by `thread`; holder is the
\* owner of the engine's lock when the action starts
Traced(thread, name) == [thread |-> thread, name |-> name, holder |-> lock, t |-> now]

PollExecuteStep ==
    /\ poll_pc = "executing"
    /\ ExecutePlanStep("poll")
    /\ repair_trace' = Append(repair_trace, Traced("poll", eng["poll"].plan[eng["poll"].idx]))
    /\ UNCHANGED <<environ, poll_pc, poll_plan, pret, callback_calls, poll_errors, n_cycles>>

PollExecuteEnd ==
    /\ poll_pc = "executing"
    /\ ExecutePlanEnd("poll")
    /\ poll_pc' = "sleep"
    /\ UNCHANGED <<environ, poll_plan, pret, callback_calls, poll_errors, repair_trace, n_cycles>>

\* The callback raises (execute_plan does, out of a snapshot step): the inner
\* handler of _poll_loop logs "Repair callback error" and the pass goes on to
\* its sleep
PollExecuteRaises ==
    /\ poll_pc = "executing"
    /\ ExecutePlanStepRaises("poll")
    /\ poll_pc' = "sleep"
    /\ poll_errors' = Append(poll_errors, [t |-> now, check |-> "repair_callback"])
    /\ UNCHANGED <<environ, poll_plan, pret, callback_calls, repair_trace, n_cycles>>

\* time.sleep(self._poll_interval)
PollSleep(max_now) ==
    /\ poll_pc = "sleep"
    /\ now + POLL_INTERVAL <= max_now
    /\ now' = now + POLL_INTERVAL
    /\ poll_pc' = "ready"
    /\ UNCHANGED <<environ, poll_plan, pret, callback_calls, poll_errors, repair_trace, n_cycles>>
    /\ UNCHANGED <<componentVars, repairVars, watchdogVars>>
    /\ MonitorFrame

\* MainController._handle_repair_command: the commands that call the repair
\* engine's actions directly, and the actions they call in order
DirectCommands ==
    [ fix_mic |-> << "repair_mic_routine" >>,
      fix_speech |-> << "switch_asr_to_cpu", "restart_asr" >>,
      fix_tts |-> << "restart_tts" >>,
      fix_hotkeys |-> << "rebind_hotkeys" >>,
      reset_ptt |-> << "reset_ptt_state" >> ]

RECURSIVE RunDirect(_, _)
RunDirect(names, w) ==
    IF names = <<>> THEN { Outcome(w, <<>>) }
    ELSE UNION { { Outcome(o2.w, o.res \o o2.res) : o2 \in RunDirect(Tail(names), o.w) } :
                   o \in Dispatch(Head(names), w) }

UserActions(trace) == SelectSeq(trace, LAMBDA e : e.thread = "user")

\* _handle_repair_command(cmd) in the user's thread: the actions are called on
\* the engine without execute_plan, so without the engine's lock
HandleRepairCommand(cmd, max_commands, max_runs) ==
    LET names == DirectCommands[cmd]
    IN  /\ Len(UserActions(repair_trace)) < max_commands
        /\ n_runs < max_runs
        /\ n_runs' = n_runs + 1
        /\ \E o \in RunDirect(names, World) : SetWorld(o.w)
        /\ repair_trace' = repair_trace \o [i \in 1..Len(names) |-> Traced("user", names[i])]
        /\ UNCHANGED <<lock, eng, eret>>
        /\ UNCHANGED <<environ, poll_pc, poll_plan, pret, callback_calls, poll_errors, n_cycles>>
        /\ RepairFrame

\* ---- the running monitor
MaxCycles == 5
MaxNowMonitor == 15
MaxMonitorEvents == 1
MonitorEvents == { "asr_recording", "tts_engine_lost", "tts_played_fast" }
RaisingChecks == { "none", "tts" }

NextMonitor ==
    \/ \E raising \in RaisingChecks : PollDiagnose(raising, MaxCycles)
    \/ PollExecuteBegin(MaxCycles)
    \/ PollExecuteStep
    \/ PollExecuteEnd
    \/ PollExecuteRaises
    \/ PollSleep(MaxNowMonitor)
    \/ \E ev \in MonitorEvents : n_events < MaxMonitorEvents /\ ComponentEvent(ev)

\* ---- the monitor and the user's repair commands
MaxCyclesConcurrent == 2
MaxNowConcurrent == 3
MaxUserCommands == 1

NextConcurrent ==
    \/ PollDiagnose("none", MaxCyclesConcurrent)
    \/ PollExecuteBegin(MaxCyclesConcurrent + MaxUserCommands)
    \/ PollExecuteStep
    \/ PollExecuteEnd
    \/ PollExecuteRaises
    \/ PollSleep(MaxNowConcurrent)
    \/ \E cmd \in DOMAIN DirectCommands :
          HandleRepairCommand(cmd, MaxUserCommands, MaxCyclesConcurrent + MaxUserCommands)
    \/ \E ev \in MonitorEvents : n_events < MaxMonitorEvents /\ ComponentEvent(ev)

\* ---- Watchdog.start, Watchdog.stop and the threads running _poll_loop
InitLife ==
    /\ wd_running = FALSE
    /\ wd_thread = 0
    /\ wd_threads = <<>>
    /\ wd_caller = "idle"

LifeFrame ==
    UNCHANGED <<now, approvalVars, componentVars, repairVars, gitVars, updateVars, plannerVars,
                coderVars, schedVars, gateVars, radVars, windowVars>>

\* start(): returns at once when _running is set; otherwise sets it and starts
\* a new thread on _poll_loop
WatchdogStart(max_threads) ==
    /\ wd_caller = "idle"
    /\ IF wd_running
       THEN UNCHANGED <<wd_running, wd_thread, wd_threads>>
       ELSE /\ Len(wd_threads) < max_threads
            /\ wd_running' = TRUE
            /\ wd_threads' = Append(wd_threads, [pc |-> "test", cycles |-> 0])
            /\ wd_thread' = Len(wd_threads) + 1
    /\ UNCHANGED <<wd_caller, watchdogVars, monitorVars>>
    /\ LifeFrame

\* stop(), line 453: self._running = False; the caller goes on to join
WatchdogStopSignal ==
    /\ wd_caller = "idle"
    /\ wd_running' = FALSE
    /\ wd_caller' = IF wd_thread # 0 THEN "joining" ELSE "idle"
    /\ UNCHANGED <<wd_thread, wd_threads, watchdogVars, monitorVars>>
    /\ LifeFrame

\* stop(), lines 454-456: self._thread.join(timeout=5) returns, because the
\* thread has ended or because 5 seconds have passed; the loop sleeps 3
\* seconds, so only a thread inside a cycle outlasts the timeout
WatchdogStopJoin ==
    /\ wd_caller = "joining"
    /\ wd_threads[wd_thread].pc \in { "exited", "cycle" }
    /\ wd_caller' = "idle"
    /\ UNCHANGED <<wd_running, wd_thread, wd_threads, watchdogVars, monitorVars>>
    /\ LifeFrame

\* _poll_loop, line 423: `while self._running:`
LoopTest(i) ==
    /\ wd_threads[i].pc = "test"
    /\ wd_threads' = [wd_threads EXCEPT ![i].pc = IF wd_running THEN "cycle" ELSE "exited"]
    /\ UNCHANGED <<wd_running, wd_thread, wd_caller, watchdogVars, monitorVars>>
    /\ LifeFrame

\* _poll_loop, lines 424-437: one cycle: run_diagnostics and, for a failed or
\* degraded report, the repair callback
LoopCycle(i) ==
    LET report == DiagnosticReport(Checks, now)
    IN  /\ wd_threads[i].pc = "cycle"
        /\ wd_threads' = [wd_threads EXCEPT ![i].pc = "sleep", ![i].cycles = 1]
        /\ last_diagnostics' = report
        /\ scanned' = ScanRecommendations(Checks)
        /\ callback_calls' = IF InvokesCallback(report)
                             THEN Append(callback_calls, [t |-> now, status |-> report.overall_status,
                                                          dotenv |-> dotenv.auto_repair])
                             ELSE callback_calls
        /\ UNCHANGED <<wd_running, wd_thread, wd_caller, last_mic_frame_time, transcription_latencies,
                       n_events, environ, poll_pc, poll_plan, pret, poll_errors, repair_trace, n_cycles>>
        /\ LifeFrame

\* _poll_loop, line 439: time.sleep(self._poll_interval) is over
LoopWake(i) ==
    /\ wd_threads[i].pc = "sleep"
    /\ wd_threads' = [wd_threads EXCEPT ![i].pc = "test"]
    /\ UNCHANGED <<wd_running, wd_thread, wd_caller, watchdogVars, monitorVars>>
    /\ LifeFrame

MaxPollThreads == 3

NextLife ==
    \/ WatchdogStart(MaxPollThreads)
    \/ WatchdogStopSignal
    \/ WatchdogStopJoin
    \/ \E i \in 1..Len(wd_threads) : LoopTest(i)
    \/ \E i \in 1..Len(wd_threads) : LoopCycle(i)
    \/ \E i \in 1..Len(wd_threads) : LoopWake(i)

\* ---- logs/snapshots, the one directory the three snapshot makers write to
ListedDirs(store) ==
    { store[i].path : i \in { j \in 1..Len(store) : store[j].kind = "dir" } }

RetentionFrame ==
    UNCHANGED <<approvalVars, gitVars, watchdogVars, plannerVars, monitorVars, laterVars,
                asr, tts, keyboard, avatar, dotenv, audio_repair_attempts, audio_history, lock, eng,
                eret, workfiles, stash, origin_main, remote_main, notifications, last_run_result,
                uret, project_files, patch_log, fail_log, cret>>

\* repair_engine.create_snapshot(label): its pruning removes directories of
\* the autonomous coder as well, they lie in the same directory
RepairSnapshot(label, max_snapshots) ==
    /\ n_runs < max_snapshots
    /\ n_runs' = n_runs + 1
    /\ snapshots' = CreateSnapshot(World, label).snapshots
    /\ coder_snapshots' = [d \in DOMAIN coder_snapshots \cap ListedDirs(snapshots') |->
                             coder_snapshots[d]]
    /\ UNCHANGED <<now, n_flows, n_fixes>>
    /\ RetentionFrame

\* autonomous_coder.create_snapshot("autofix"): the directory is created and
\* filled; nothing is pruned.  (A second call within the same second reuses
\* the directory and adds nothing to the store: it is left out.)
CoderSnapshot(max_snapshots) ==
    LET dir == SnapshotDir(now, "autofix")
    IN  /\ n_fixes < max_snapshots
        /\ dir \notin ListedDirs(snapshots)
        /\ n_fixes' = n_fixes + 1
        /\ coder_snapshots' = CoderCreateSnapshot(coder_snapshots, now, "autofix", project_files)
        /\ snapshots' = IF dir \in ListedDirs(snapshots) THEN snapshots
                        ELSE Append(snapshots, [kind |-> "dir", path |-> dir])
        /\ UNCHANGED <<now, n_runs, n_flows>>
        /\ RetentionFrame

\* SelfUpdater.create_backup
UpdateBackup(max_backups) ==
    /\ n_flows < max_backups
    /\ n_flows' = n_flows + 1
    /\ snapshots' = CreateBackup(Checkout, now).snapshots
    /\ UNCHANGED <<now, n_runs, n_fixes, coder_snapshots>>
    /\ RetentionFrame

MaxNowRetention == 7
MaxRepairSnapshots == 1
MaxCoderSnapshots == 8
MaxBackups == 1

TickRetention ==
    /\ now + 1 <= MaxNowRetention
    /\ now' = now + 1
    /\ UNCHANGED <<componentVars, repairVars, updateVars, coderVars>>
    /\ RetentionFrame

NextRetention ==
    \/ \E label \in { "restart_tts" } : RepairSnapshot(label, MaxRepairSnapshots)
    \/ CoderSnapshot(MaxCoderSnapshots)
    \/ UpdateBackup(MaxBackups)
    \/ TickRetention

(***************************************************************************)
(* core/self_update.py : is_in_maintenance_window, for any window text     *)
(***************************************************************************)
DigitChars == <<"0","1","2","3","4","5","6","7","8","9">>

\* str.split(sep) for a separator of one character
RECURSIVE SplitOn(_, _)
SplitOn(s, sep) ==
    IF \A i \in 1..Len(s) : s[i] # sep THEN << s >>
    ELSE LET k == CHOOSE i \in 1..Len(s) : s[i] = sep /\ \A j \in 1..(i - 1) : s[j] # sep
         IN  << SubSeq(s, 1, k - 1) >> \o SplitOn(SubSeq(s, k + 1, Len(s)), sep)

\* The number a text of decimal digits writes
RECURSIVE DigitsValue(_)
DigitsValue(s) ==
    IF s = <<>> THEN 0
    ELSE (10 * DigitsValue(SubSeq(s, 1, Len(s) - 1)))
            + ((CHOOSE i \in 1..10 : DigitChars[i] = s[Len(s)]) - 1)

\* int(s): blanks around the number are ignored; a text that is not a decimal
\* number raises ValueError (ok = FALSE)
ParseInt(s) ==
    LET body == Strip(s)
    IN  IF body # <<>> /\ \A i \in 1..Len(body) : \E d \in 1..10 : DigitChars[d] = body[i]
        THEN [ok |-> TRUE, value |-> DigitsValue(body)]
        ELSE [ok |-> FALSE, value |-> 0]

\* dt_time(h, m) raises ValueError outside 0..23 and 0..59
ValidTime(h, m) == h \in 0..23 /\ m \in 0..59

\* is_in_maintenance_window() with the window text `window` at the time of
\* day tod, in seconds: an empty text or one without "-" is always open; so
\* is one whose parsing raises (more or fewer than two parts, a part that is
\* not H:M, a number that is not one, an hour or minute out of range).  The
\* time of day, seconds included, is compared with the window's whole minutes.
IsInMaintenanceWindowOf(window, tod) ==
    IF window = <<>> \/ ~Contains(<< "-" >>, window) THEN TRUE
    ELSE LET parts == SplitOn(window, "-")
         IN  IF Len(parts) # 2 THEN TRUE
             ELSE LET sp == SplitOn(parts[1], ":")
                      ep == SplitOn(parts[2], ":")
                  IN  IF Len(sp) # 2 \/ Len(ep) # 2 THEN TRUE
                      ELSE LET sh == ParseInt(sp[1])
                               sm == ParseInt(sp[2])
                               eh == ParseInt(ep[1])
                               em == ParseInt(ep[2])
                               start == ((sh.value * 60) + sm.value) * 60
                               end == ((eh.value * 60) + em.value) * 60
                           IN  IF ~(sh.ok /\ sm.ok /\ eh.ok /\ em.ok) THEN TRUE
                               ELSE IF ~(ValidTime(sh.value, sm.value) /\ ValidTime(eh.value, em.value))
                               THEN TRUE
                               ELSE IF start <= end
                               THEN start <= tod /\ tod <= end
                               ELSE tod >= start \/ tod <= end

\* os.getenv("SELF_UPDATE_AUTO_APPLY_WINDOW", "00:00-23:59")
DefaultWindow == << "0", "0", ":", "0", "0", "-", "2", "3", ":", "5", "9" >>

NoWindowCall == [called |-> FALSE, t |-> 0, result |-> FALSE]

InitWindow ==
    /\ apply_window = DefaultWindow
    /\ wret = NoWindowCall

WindowFrame ==
    UNCHANGED <<approvalVars, componentVars, repairVars, gitVars, updateVars, watchdogVars,
                plannerVars, coderVars, monitorVars, schedVars, gateVars, radVars, lifeVars>>

\* The process is started with the variable set to a text; the module reads
\* it once, when it is imported
ConfigureWindow(window) ==
    /\ ~wret.called
    /\ apply_window = DefaultWindow
    /\ window # DefaultWindow
    /\ apply_window' = window
    /\ UNCHANGED <<now, wret>>
    /\ WindowFrame

\* is_in_maintenance_window() at clock time now
IsInMaintenanceWindowCall ==
    /\ wret' = [called |-> TRUE, t |-> now,
                result |-> IsInMaintenanceWindowOf(apply_window, now % SecondsPerDay)]
    /\ UNCHANGED <<now, apply_window>>
    /\ WindowFrame

\* ---- is_in_maintenance_window on any window and time of day
\* The window texts of the model: the default, a window within one day, one
\* wrapping midnight, one written with blanks; the empty text, and malformed
\* ones (no "-", no ":", a word for a number, hour 25, three parts)
WindowWithinDay == << "0", "9", ":", "0", "0", "-", "1", "7", ":", "0", "0" >>
WindowWrapping == << "2", "2", ":", "0", "0", "-", "0", "6", ":", "0", "0" >>
WindowSpaced == << "2", "2", ":", "0", "0", " ", "-", " ", "0", "6", ":", "0", "0" >>
WindowTexts ==
    { DefaultWindow, WindowWithinDay, WindowWrapping, WindowSpaced, <<>>,
      << "a", "l", "w", "a", "y", "s" >>,
      << "9", "-", "1", "7" >>,
      << "n", "i", "n", "e", ":", "0", "0", "-", "1", "7", ":", "0", "0" >>,
      << "2", "2", ":", "0", "0", "-", "2", "5", ":", "0", "0" >>,
      << "2", "2", ":", "0", "0", "-", "0", "2", ":", "0", "0", "-", "0", "6", ":", "0", "0" >> }

\* Times of day, in seconds: at, just before and just after the bounds of the
\* windows, and in the last minute of the day
WindowTimes ==
    { 0, 21599, 21600, 21601, 32399, 32400, 43200, 61200, 61201, 79199, 79200, 86340, 86370,
      86399 }

TickWindow ==
    \E t \in WindowTimes :
        /\ t > now
        /\ now' = t
        /\ UNCHANGED <<apply_window, wret>>
        /\ WindowFrame

NextWindow ==
    \/ \E window \in WindowTexts : ConfigureWindow(window)
    \/ IsInMaintenanceWindowCall
    \/ TickWindow

\* ---- commit_patch and its rate limit
MaxCommitCalls == 4
MaxNowCommit == 91800
MaxSecondOfDay == 5400

PathCoreA == << "c", "/", "a" >>
PathNotes == << "n" >>
PathOtherA == << "o", "/", "a" >>

Changed(path, xy, ins, del) == [path |-> path, xy |-> xy, ins |-> ins, del |-> del]
Modified == << " ", "M" >>
Staged == << "M", " " >>
Untracked == << "?", "?" >>

CommitTrees ==
    { <<>>,
      << Changed(PathCoreA, Modified, 10, 2) >>,
      << Changed(PathCoreA, Modified, 500, 0) >>,
      << Changed(PathCoreA, Staged, 400, 200), Changed(PathNotes, Untracked, 0, 0) >> }

CommitFiles == { <<>>, << PathCoreA >>, << PathNotes >> }

\* Time passes: half an hour, or a day
TickCommit ==
    \E d \in { 1800, SecondsPerDay } :
        /\ now + d <= MaxNowCommit
        /\ (now + d) % SecondsPerDay <= MaxSecondOfDay
        /\ now' = now + d
        /\ UNCHANGED <<approvalVars, componentVars, repairVars, gitVars, updateVars, watchdogVars, otherVars>>

NextCommit ==
    \/ EditWorkTree(CommitTrees)
    \/ \E files \in CommitFiles : \E git_ok \in BOOLEAN :
          /\ Len(commit_history) < MaxCommitCalls
          /\ CommitPatch(files, git_ok)
    \/ TickCommit

\* ---- validate_diff_before_commit
MaxAuditLen == 2

\* Every working tree over three paths, each unchanged, modified or staged;
\* and one with a diff over the line limit
DiffPaths == << PathCoreA, PathNotes, PathOtherA >>
DiffTrees ==
    { SelectSeq([i \in 1..Len(DiffPaths) |-> Changed(DiffPaths[i], st[i], IF st[i] = Modified THEN 10 ELSE 0, 0)],
                LAMBDA e : e.xy # <<>>) :
        st \in [1..Len(DiffPaths) -> { <<>>, Modified, Staged }] }
    \cup { << Changed(PathCoreA, Modified, 400, 101) >> }

ExpectedLists ==
    { << PathCoreA >>, << PathCoreA, PathNotes >>, << << ".", "/" >> \o PathNotes >>, << << "a" >> >>, <<>> }

NextDiff ==
    \/ EditWorkTree(DiffTrees)
    \/ \E expected_files \in ExpectedLists :
          /\ Len(git_actions) < MaxAuditLen
          /\ ValidateDiffBeforeCommit(expected_files)

\* ---- the circuit breaker alone: restart_audio_device through its two callers
MaxAudioCalls == 5
MaxNowBreaker == 900
BreakerPlans == { << "restart_audio_device" >> }
BreakerThreads == { "poll" }

TickBreaker ==
    \E d \in { 200, 300 } :
        /\ now + d <= MaxNowBreaker
        /\ now' = now + d
        /\ UNCHANGED <<approvalVars, componentVars, repairVars, gitVars, updateVars, watchdogVars, otherVars>>

NextBreaker ==
    \/ \E t \in BreakerThreads : \E plan \in BreakerPlans :
          ExecutePlanBegin(t, plan, MaxAudioCalls) /\ UNCHANGED monitorVars
    \/ \E t \in BreakerThreads : ExecutePlanStep(t) /\ UNCHANGED monitorVars
    \/ \E t \in BreakerThreads : ExecutePlanEnd(t) /\ UNCHANGED monitorVars
    \/ \E t \in BreakerThreads : ExecutePlanStepRaises(t) /\ UNCHANGED monitorVars
    \/ TickBreaker

\* ---- the repair engine: plans of any actions
MaxRuns == 1
MaxPlanLen == 2
PlanItems == PlanActions \cup { "defragment_disk" }

\* The plans handed to execute_plan: no action twice (the planner builds them
\* from a recommendation list without duplicates)
Plans ==
    { p \in UNION { [1..n -> PlanItems] : n \in 1..MaxPlanLen } :
        \A i, j \in 1..Len(p) : p[i] = p[j] => i = j }

NextRepair ==
    \/ \E t \in Threads : \E plan \in Plans :
          ExecutePlanBegin(t, plan, MaxRuns) /\ UNCHANGED monitorVars
    \/ \E t \in Threads : ExecutePlanStep(t) /\ UNCHANGED monitorVars
    \/ \E t \in Threads : ExecutePlanEnd(t) /\ UNCHANGED monitorVars
    \/ \E t \in Threads : ExecutePlanStepRaises(t) /\ UNCHANGED monitorVars
    \/ UserFixMic(MaxRuns) /\ UNCHANGED monitorVars

InitOther ==
    /\ InitPlanner
    /\ InitCoder
    /\ InitMonitor
    /\ InitScheduler
    /\ InitGate
    /\ InitRad
    /\ InitLife
    /\ InitWindow

Init ==
    /\ now = 0
    /\ InitApproval
    /\ InitComponents(TRUE)
    /\ InitRepair
    /\ InitGit
    /\ InitUpdate
    /\ InitWatchdog
    /\ InitOther

\* No PIN configured; the components all present or all missing
InitEngine ==
    /\ now = 0
    /\ InitApproval
    /\ approval_pin = <<>>
    /\ \E present \in BOOLEAN : InitComponents(present)
    /\ InitRepair
    /\ InitGit
    /\ InitUpdate
    /\ InitWatchdog
    /\ InitOther

\* No PIN configured, every component present
InitRepo ==
    /\ Init
    /\ approval_pin = <<>>

SpecLife == InitRepo /\ [][NextLife]_vars

SpecWindow == InitRepo /\ [][NextWindow]_vars

SpecRetention == InitRepo /\ [][NextRetention]_vars

SpecGate == InitRepo /\ [][NextGate]_vars

SpecBreakerThreads == InitRepo /\ [][NextRad]_vars

SpecBreaker == InitEngine /\ [][NextBreaker]_vars

SpecRepair == InitEngine /\ [][NextRepair]_vars

SpecCommit == InitRepo /\ [][NextCommit]_vars

SpecDiff == InitRepo /\ [][NextDiff]_vars

SpecUpdate == InitRepo /\ [][NextUpdate]_vars

SpecWatchdog == InitEngine /\ [][NextWatchdog]_vars

SpecPlanner == InitRepo /\ [][NextPlanner]_vars

SpecCoder == InitRepo /\ [][NextCoder]_vars

SpecMonitor == InitRepo /\ [][NextMonitor]_vars

SpecConcurrent == InitRepo /\ [][NextConcurrent]_vars

SpecScheduler == InitRepo /\ [][NextScheduler]_vars

SpecApproval == Init /\ [][NextApproval]_vars

(***************************************************************************)
(* Claims about the approval gate                                          *)
(***************************************************************************)
\* A step that is a call of request_approval / check_response / _on_timeout
IsRequestCall == aret'.op = "request_approval" /\ aret' # aret
IsCheckCall == aret'.op = "check_response" /\ aret' # aret
IsTimerFiring ==
    /\ timer # <<>> /\ timer[1].state = "running"
    /\ timer' # <<>> /\ timer'[1].state = "finished"

\* C4: request_approval called while a request is pending returns false and
\* leaves the pending request (action, reason, expiry), the stored confirm and
\* deny callbacks and the running timer unchanged.
C4_RejectedRequestChangesNothing ==
    [][ (pending # <<>> /\ IsRequestCall) =>
            /\ aret'.ok = FALSE
            /\ pending' = pending
            /\ callback_on_confirm' = callback_on_confirm
            /\ callback_on_deny' = callback_on_deny
            /\ timer' = timer ]_vars

\* C4 witness: a request has just been refused while another one, with a
\* different action, is pending and its timer is running.
C4_Witness ==
    /\ aret.op = "request_approval" /\ aret.ok = FALSE
    /\ pending # <<>> /\ pending[1].action # aret.action
    /\ timer # <<>> /\ timer[1].state = "running"

\* C5: an accepted request with no response within APPROVAL_TIMEOUT times out:
\* the timer fires exactly APPROVAL_TIMEOUT after the request was made, the
\* pending request is cleared, no callback of that request is invoked then or
\* ever after, and the next request_approval is accepted.
C5_TimeoutClearsWithoutCallbacks ==
    /\ [][ (IsTimerFiring /\ pending # <<>>) =>
              /\ now = pending[1].timestamp + APPROVAL_TIMEOUT
              /\ now = pending[1].expires
              /\ pending' = <<>>
              /\ confirm_calls' = confirm_calls
              /\ deny_calls' = deny_calls ]_vars
    /\ [][ \A r \in Requests :
              outcome[r] = "timed_out" =>
                  /\ outcome'[r] = "timed_out"
                  /\ confirm_calls'[r] = 0 /\ deny_calls'[r] = 0 ]_vars
    /\ [][ (IsRequestCall /\ n_requests > 0 /\ outcome[n_requests] = "timed_out") =>
              (aret'.ok = TRUE /\ pending' # <<>>) ]_vars

\* C5 witness: the first request timed out with neither callback called, and
\* a later request, made after the timeout, has been accepted and is pending.
C5_Witness ==
    /\ n_requests = 2
    /\ outcome[1] = "timed_out" /\ confirm_calls[1] = 0 /\ deny_calls[1] = 0
    /\ pending # <<>> /\ pending[1].timestamp >= APPROVAL_TIMEOUT

RecentAttemptsBefore(i) ==
    { j \in 1..(i - 1) :
        /\ audio_history[j].result # "skipped"
        /\ audio_history[i].t - audio_history[j].t < AUDIO_REPAIR_COOLDOWN_MINUTES * 60 }

\* C1: a call of restart_audio_device made while three earlier non-skipped
\* calls are all less than 10 minutes old is skipped with the circuit-breaker
\* reason; a call made when fewer than three are that recent (so: once 10
\* minutes have passed since the earliest of three) is not skipped.
C1_BreakerOpensAtThreeAndClosesAfterCooldown ==
    \A i \in 1..Len(audio_history) :
        IF Cardinality(RecentAttemptsBefore(i)) >= AUDIO_REPAIR_MAX_ATTEMPTS
        THEN /\ audio_history[i].result = "skipped"
             /\ audio_history[i].message = "Circuit breaker: too many attempts"
        ELSE audio_history[i].result # "skipped"

\* C1 witness: a fourth call was skipped, and a later call, made exactly 10
\* minutes after the earliest of the three attempts, was allowed.
C1_Witness ==
    \E i, j \in 1..Len(audio_history) :
        /\ i < j
        /\ audio_history[i].result = "skipped"
        /\ audio_history[j].result # "skipped"
        /\ \E k \in 1..(i - 1) :
              /\ k \in RecentAttemptsBefore(i)
              /\ audio_history[j].t - audio_history[k].t = AUDIO_REPAIR_COOLDOWN_MINUTES * 60

(***************************************************************************)
(* execute_plan and the escalation to the autonomous coder                 *)
(***************************************************************************)
FailedNames(results) ==
    LET failures == SelectSeq(results, LAMBDA r : r.result = "failed" /\ r.name # "autonomous_fix")
    IN  [i \in 1..Len(failures) |-> failures[i].name]

AutonomousFixes(results) == SelectSeq(results, LAMBDA r : r.name = "autonomous_fix")

\* C7 (as stated): the results execute_plan returns hold exactly one
\* autonomous_fix, obtained by one escalation that was given the names of all
\* the failed actions, when at least two actions of the run failed; they hold
\* none when fewer than two failed.
C7_ExecutePlanEscalatesAfterTwoFailures ==
    \A t \in Threads :
        eret[t].returned =>
            IF Len(FailedNames(eret[t].results)) >= 2
            THEN /\ Len(AutonomousFixes(eret[t].results)) = 1
                 /\ eret[t].escalations = << FailedNames(eret[t].results) >>
            ELSE Len(AutonomousFixes(eret[t].results)) = 0

(***************************************************************************)
(* commit_patch: the hourly rate limit                                     *)
(***************************************************************************)
\* The earlier calls of commit_patch that committed, and did so less than
\* `window` seconds before call i (or exactly `window`, when inclusive)
CommitsWithin(i, window, inclusive) ==
    { j \in 1..(i - 1) :
        /\ commit_history[j].outcome = "committed"
        /\ \/ commit_history[i].t - commit_history[j].t < window
           \/ inclusive /\ commit_history[i].t - commit_history[j].t = window }

\* C2 (as stated): a commit_patch call made while three commits are less than
\* an hour old returns ok=false and no revision; a call made when fewer than
\* three commits are an hour old or younger (so: later than one hour after the
\* earliest of any three) is not rejected by the rate limit.
C2_RateLimitIsARollingHour ==
    \A i \in 1..Len(commit_history) :
        /\ Cardinality(CommitsWithin(i, 3600, FALSE)) >= MAX_COMMITS_PER_HOUR
              => /\ commit_history[i].ok = FALSE
                 /\ commit_history[i].hash = 0
        /\ Cardinality(CommitsWithin(i, 3600, TRUE)) < MAX_COMMITS_PER_HOUR
              => commit_history[i].outcome # "rate_limited"

(***************************************************************************)
(* validate_diff_before_commit                                             *)
(***************************************************************************)
\* A changed file matches an expected entry by exact path or as a path suffix
MatchesExpected(f, expected_files) ==
    \E k \in 1..Len(expected_files) :
        \/ f = expected_files[k]
        \/ PathStr(f) = PathStr(expected_files[k])
        \/ EndsWith(f, expected_files[k])

\* C3 (as stated): validate_diff_before_commit returns ok=true only if every
\* changed file matches an expected entry by exact path or path suffix, and
\* when a changed file matches none it returns ok=false and names that file.
C3_OnlyExpectedFilesPass ==
    gret.op = "validate_diff_before_commit" =>
        \A i \in 1..Len(gret.tree) :
            \/ MatchesExpected(gret.tree[i].path, gret.args)
            \/ /\ gret.ok = FALSE
               /\ \E k \in 1..Len(gret.unexpected) : gret.unexpected[k] = gret.tree[i].path

(***************************************************************************)
(* run_full_autonomy_flow: tests fail after the merge                      *)
(***************************************************************************)
\* The last flow merged and then saw the tests fail; the restore itself worked
TestsFailedAfterMerge ==
    /\ uret.returned
    /\ uret.last = "TESTS_FAILED"
    /\ uret.restore_ok

\* C8 (as stated): when the merge succeeded and the tests then failed, on
\* return HEAD is the revision that was HEAD before the merge, every file of
\* the backup has the backup's contents again, and an update_failed
\* notification was emitted whose details are the test output cut to at most
\* 500 characters.
C8_FailedTestsRestorePreMergeState ==
    TestsFailedAfterMerge =>
        /\ uret.head_after = uret.head_before
        /\ \A x \in RepoFiles : uret.backup[x] # 0 => uret.files_after[x] = uret.backup[x]
        /\ \E i \in 1..Len(uret.notes) :
              LET n == uret.notes[i]
              IN  /\ n.event = "update_failed"
                  /\ n.details.of = uret.test_output.of
                  /\ n.details.len = Min(uret.test_output.len, 500)
                  /\ n.details.len <= 500

(***************************************************************************)
(* run_diagnostics: the overall status and the recommendations             *)
(***************************************************************************)
ReportStatuses ==
    { last_diagnostics.components[i].status : i \in 1..Len(last_diagnostics.components) }

\* C9: the overall status of every report is FAILED iff some component is
\* FAILED, DEGRADED iff none is FAILED and some is DEGRADED, HEALTHY otherwise.
C9_OverallStatusIsTheWorstComponent ==
    last_diagnostics # NoReport =>
        /\ last_diagnostics.overall_status = "failed" <=> "failed" \in ReportStatuses
        /\ last_diagnostics.overall_status = "degraded"
              <=> ("failed" \notin ReportStatuses /\ "degraded" \in ReportStatuses)
        /\ last_diagnostics.overall_status = "healthy"
              <=> ("failed" \notin ReportStatuses /\ "degraded" \notin ReportStatuses)

\* C9 witness: a report that is healthy overall although every component's
\* status is unknown (the case that is neither failed nor degraded).
C9_Witness ==
    /\ last_diagnostics # NoReport
    /\ last_diagnostics.overall_status = "healthy"
    /\ "unknown" \in ReportStatuses

\* The position of the first occurrence of x in q
FirstIndex(q, x) == CHOOSE i \in 1..Len(q) : q[i] = x /\ \A j \in 1..(i - 1) : q[j] # x

\* C10: the recommendations of every report hold no action id twice, hold
\* exactly the ids the scan recommended, and list them in the order in which
\* the scan recommended each for the first time.
C10_RecommendationsUniqueInFirstSeenOrder ==
    LET recs == last_diagnostics.recommendations
    IN  /\ \A i, j \in 1..Len(recs) : recs[i] = recs[j] => i = j
        /\ { recs[i] : i \in 1..Len(recs) } = { scanned[i] : i \in 1..Len(scanned) }
        /\ \A i, j \in 1..Len(recs) :
              i < j => FirstIndex(scanned, recs[i]) < FirstIndex(scanned, recs[j])

\* C10 witness: a report whose scan recommended three different actions
C10_Witness ==
    /\ Len(scanned) >= 3
    /\ Len(last_diagnostics.recommendations) >= 3
    /\ last_diagnostics.recommendations[1] = "restart_audio_device"

(***************************************************************************)
(* create_plan: the cap on automatic items                                 *)
(***************************************************************************)
AutoItems(items) == { i \in 1..Len(items) : items[i].auto }

\* How often an action id occurs in a sequence of ids
Occurrences(q, x) == Cardinality({ i \in 1..Len(q) : q[i] = x })

\* C11: the plan create_plan returns has at most MAX_AUTO_ACTIONS items with
\* auto = true; it has one item for every recommendation of the report, and
\* the automatic-safe items beyond the cap are in it with auto = false.
C11_AutoItemsCapped ==
    planner_plan.returned =>
        LET items == planner_plan.items
            recs == planner_report.recommendations
            safe == { i \in 1..Len(items) : items[i].action \in AUTO_SAFE_ACTIONS }
        IN  /\ Cardinality(AutoItems(items)) <= MAX_AUTO_ACTIONS
            /\ Len(items) = Len(recs)
            /\ \A i \in 1..Len(recs) :
                  Occurrences([j \in 1..Len(items) |-> items[j].action], recs[i])
                     = Occurrences(recs, recs[i])
            /\ AutoItems(items) \subseteq safe
            /\ \A i \in safe :
                  items[i].auto <=> Cardinality({ j \in safe : j <= i }) <= MAX_AUTO_ACTIONS

\* C11 witness: a plan for a report naming all eight automatic-safe actions:
\* five items are automatic, three are in the plan with auto = false.
C11_Witness ==
    /\ planner_plan.returned
    /\ { planner_plan.items[i].action : i \in 1..Len(planner_plan.items) } = AUTO_SAFE_ACTIONS
    /\ Cardinality(AutoItems(planner_plan.items)) = MAX_AUTO_ACTIONS
    /\ Len(planner_plan.items) = 8

(***************************************************************************)
(* analyze_and_fix: rollback after failing tests, order of the steps       *)
(***************************************************************************)
\* The last analyze_and_fix applied a patch and then saw the tests fail
TestsFailedAfterPatch ==
    /\ cret.returned
    /\ cret.result.patch_applied
    /\ ~cret.result.tests_passed

\* C12 (as stated): when the tests fail after a patch was applied, the target
\* file has on return the content it had before the patch, whichever file was
\* the target; and rollback_performed is reported only in that case.
C12_FailedTestsRestoreTargetFile ==
    /\ TestsFailedAfterPatch => cret.files_after[cret.target] = cret.files_before[cret.target]
    /\ (cret.returned /\ cret.result.rollback_performed) =>
          /\ TestsFailedAfterPatch
          /\ cret.files_after[cret.target] = cret.files_before[cret.target]

\* The position of a step among the steps of the last analyze_and_fix (0: the
\* step was not taken)
StepIndex(step) ==
    IF \E i \in 1..Len(cret.steps) : cret.steps[i] = step
    THEN CHOOSE i \in 1..Len(cret.steps) : cret.steps[i] = step
    ELSE 0

InThisOrder(steps) ==
    /\ \A i \in 1..Len(steps) : StepIndex(steps[i]) # 0
    /\ \A i \in 1..(Len(steps) - 1) : StepIndex(steps[i]) < StepIndex(steps[i + 1])

\* C16 (as stated): for a patch that was applied the steps were, in this
\* order, snapshot, start of an isolation branch, apply, validate_diff and the
\* test run; after passing tests the change is committed and merged into the
\* main line, after failing tests the file is reverted and a failure tag is
\* recorded; a changed file is kept only after a passing diff validation and a
\* passing test run.
C16_PipelineOrder ==
    (cret.returned /\ cret.result.patch_applied) =>
        /\ InThisOrder(<< "create_snapshot", "start_autobranch", "apply_patch",
                          "validate_diff_before_commit", "run_tests" >>)
        /\ cret.result.tests_passed =>
              /\ InThisOrder(<< "run_tests", "commit_semantic", "merge_branch" >>)
              /\ cret.commits_after > cret.commits_before
        /\ ~cret.result.tests_passed =>
              /\ InThisOrder(<< "run_tests", "revert_file" >>)
              /\ StepIndex("tag_failed_fix") > StepIndex("run_tests")
        /\ cret.files_after # cret.files_before =>
              /\ StepIndex("validate_diff_before_commit") # 0
              /\ cret.result.tests_passed

(***************************************************************************)
(* _poll_loop: a check that raises, the breaker and the repair callback    *)
(***************************************************************************)
\* C13 (as stated): when one check raised in the last cycle, the other checks
\* still ran, a report was produced and stored as the last report of that
\* cycle, and the raising component is in it with status unknown.
C13_RaisingCheckDoesNotAbortCycle ==
    pret.raised # "none" =>
        /\ \A i \in 1..Len(CheckNames) :
              CheckNames[i] # pret.raised => \E j \in 1..Len(pret.ran) : pret.ran[j] = CheckNames[i]
        /\ pret.report
        /\ last_diagnostics # NoReport
        /\ last_diagnostics.timestamp = pret.t
        /\ \E i \in 1..Len(last_diagnostics.components) :
              /\ last_diagnostics.components[i].name = pret.raised
              /\ last_diagnostics.components[i].status = "unknown"

\* C20 (as stated): once the circuit breaker has skipped restart_audio_device,
\* no later poll cycle calls the repair callback while the breaker has not been
\* reset (no manual reset happens here; the cooldown has not passed).
C20_NoCallbackAfterBreakerSkip ==
    \A i \in 1..Len(callback_calls) : \A j \in 1..Len(audio_history) :
        ( /\ audio_history[j].result = "skipped"
          /\ audio_history[j].t < callback_calls[i].t
          /\ callback_calls[i].t - audio_history[j].t < AUDIO_REPAIR_COOLDOWN_MINUTES * 60 )
        => FALSE

(***************************************************************************)
(* the engine's lock and the two threads that start repairs                *)
(***************************************************************************)
\* C14 (as stated): no repair action is started by one thread while the other
\* thread is inside an execute_plan run (holds the engine's lock), so the
\* actions of a run never interleave with the other thread's repair actions.
C14_RepairRunsAreSerialized ==
    \A i \in 1..Len(repair_trace) :
        repair_trace[i].holder \in { "free", repair_trace[i].thread }

(***************************************************************************)
(* repair actions and their snapshots                                      *)
(***************************************************************************)
\* C15 (as stated): every repair action execute_plan dispatched that went on to
\* change state (it succeeded) returned a RepairAction that carries the
\* reference of a snapshot labelled with the action's name.
C15_EveryActionCarriesItsSnapshot ==
    \A t \in Threads :
        eret[t].returned =>
            \A i \in 1..Len(eret[t].results) :
                LET r == eret[t].results[i]
                IN  (r.name \in PlanActions /\ r.result = "success") =>
                        /\ r.snapshot_path # NoSnapshot
                        /\ r.snapshot_path[2] = r.name

(***************************************************************************)
(* commit_patch: nothing to commit                                         *)
(***************************************************************************)
\* C17 (as stated): a call of commit_patch that found nothing staged returned
\* ok = false and no revision, and a call returned ok = true only when it
\* created a new commit.
C17_CommitPatchOkOnlyForNewCommit ==
    \A i \in 1..Len(commit_history) :
        /\ commit_history[i].outcome = "nothing_to_commit" =>
              (~commit_history[i].ok /\ commit_history[i].hash = 0)
        /\ commit_history[i].ok => commit_history[i].outcome = "committed"

(***************************************************************************)
(* The approval gate: cancelling, and the PIN                              *)
(***************************************************************************)
\* A step that is a call of cancel_pending while a request is pending
IsCancelOfPending == pending # <<>> /\ aret'.op = "cancel_pending"

\* C18 (as stated): cancelling a pending request calls its on_deny exactly
\* once and its on_confirm never, appends the denial to the approval audit
\* log, cancels the timer and leaves the gate idle.
C18_CancelIsADenial ==
    [][ IsCancelOfPending =>
            LET r == n_requests
                entry == [action |-> pending[1].action, approved |-> FALSE]
            IN  /\ deny_calls'[r] = deny_calls[r] + (IF callback_on_deny # 0 THEN 1 ELSE 0)
                /\ confirm_calls' = confirm_calls
                /\ approval_log' = Append(approval_log, entry)
                /\ log_file' = Append(log_file, entry)
                /\ timer' = <<>>
                /\ pending' = <<>>
                /\ callback_on_confirm' = 0 /\ callback_on_deny' = 0 ]_vars

\* The response holds a confirm phrase / the secret code, as check_response looks for them
HasConfirmPhrase(text) == AnyPhraseIn(CONFIRM_PHRASES, Strip(Lower(text)))
HasCode(text, code) == code # <<>> /\ Contains(code, RemoveSpaces(Strip(Lower(text))))

\* C19 (as stated): a pending request that requires the secondary code is
\* approved only by a response holding a confirm phrase and the configured
\* code; a response with a confirm phrase but without the code is answered
\* "need_pin", calls no callback and leaves the request and its timer as they are.
C19_CodeRequiredForApproval ==
    [][ (IsCheckCall /\ pending # <<>> /\ pending[1].requires_pin) =>
            /\ aret'.result = "approved" =>
                  (HasConfirmPhrase(aret'.text) /\ HasCode(aret'.text, approval_pin))
            /\ (HasConfirmPhrase(aret'.text) /\ ~HasCode(aret'.text, approval_pin)) =>
                  /\ aret'.result = "need_pin"
                  /\ confirm_calls' = confirm_calls /\ deny_calls' = deny_calls
                  /\ pending' = pending /\ timer' = timer ]_vars

(***************************************************************************)
(* run_full_autonomy_flow: the merge fails, the window, the rollback       *)
(***************************************************************************)
\* C21 (as stated): when the merge step of the last flow failed, HEAD and the
\* contents of the working tree (uncommitted modifications included) are on
\* return what they were before the flow, the result is a failure, and no
\* tests and no rollback were run.
C21_FailedMergeAppliesNothing ==
    (uret.returned /\ uret.last = "MERGE_FAILED") =>
        /\ uret.head_after = uret.head_before
        /\ uret.files_after = uret.backup
        /\ ~uret.result.success
        /\ ~uret.tests_ran
        /\ \A i \in 1..Len(uret.notes) : uret.notes[i].event # "rollback_done"

\* C22: the background scheduler starts the flow only inside the maintenance
\* window; an unforced call made outside the window is deferred and fetches,
\* backs up and merges nothing; a forced call is never deferred.
C22_WindowGatesUnforcedRuns ==
    \A i \in 1..Len(flow_calls) :
        LET c == flow_calls[i]
        IN  /\ c.by = "scheduler" => (IsInMaintenanceWindow(c.t) /\ ~c.force)
            /\ (~c.force /\ ~IsInMaintenanceWindow(c.t)) =>
                  (c.last = "DEFERRED" /\ c.deferred /\ c.untouched)
            /\ c.force => (c.last # "DEFERRED" /\ ~c.deferred)

\* C22 witness: outside the window an unforced command was deferred and a
\* forced one went on to merge; the scheduler ran the flow inside the window.
C22_Witness ==
    \E i, j, k \in 1..Len(flow_calls) :
        /\ ~flow_calls[i].force /\ ~IsInMaintenanceWindow(flow_calls[i].t)
        /\ flow_calls[i].last = "DEFERRED"
        /\ flow_calls[j].force /\ ~IsInMaintenanceWindow(flow_calls[j].t)
        /\ flow_calls[j].last \in { "OK", "TESTS_FAILED", "MERGE_FAILED" }
        /\ flow_calls[k].by = "scheduler" /\ flow_calls[k].last # "DEFERRED"

(***************************************************************************)
(* repair actions: retries, and a plan with a bad item                     *)
(***************************************************************************)
\* The repair actions that take one snapshot per attempt
SnapshottingActions == { "restart_asr", "switch_asr_to_cpu", "restart_tts", "rebind_hotkeys" }

\* The attempts the action `name` made in this step of execute_plan: every
\* attempt takes a snapshot labelled with the name, a retry one second later
AttemptsInStep(name) ==
    Cardinality({ i \in 1..Len(snapshots') :
                    snapshots'[i].path[2] = name /\ snapshots'[i].path[1] >= now })

\* C23 (as stated): a repair action that returns failed because its effect
\* raised an exception has made MAX_RETRIES + 1 attempts, and no call makes
\* more attempts than that.
C23_FailedActionsWereRetried ==
    [][ \A t \in Threads :
          (eng[t].pc = "plan" /\ eng'[t].pc = "plan" /\ eng'[t].idx = eng[t].idx + 1
             /\ eng[t].plan[eng[t].idx] \in SnapshottingActions) =>
              LET name == eng[t].plan[eng[t].idx]
                  r == eng'[t].results[Len(eng'[t].results)]
              IN  /\ AttemptsInStep(name) <= MAX_RETRIES + 1
                  /\ (r.result = "failed" /\ r.message = "error") =>
                        AttemptsInStep(name) = MAX_RETRIES + 1 ]_vars

\* C24 (as stated): every run of execute_plan ends by returning at least one
\* RepairAction for each item of its plan, in the order of the items (an
\* unknown name gives a skipped one), and with the lock released.
C24_EveryItemIsAttempted ==
    [][ \A t \in Threads :
          (eng[t].pc = "plan" /\ eng'[t].pc = "idle") =>
              LET plan == eng[t].plan
                  results == eret'[t].results
              IN  /\ eret'[t].returned
                  /\ Len(results) >= Len(plan)
                  /\ \A i \in 1..Len(plan) :
                        plan[i] # "repair_mic_routine" =>
                            \E j \in i..Len(results) :
                                /\ results[j].name = plan[i]
                                /\ plan[i] \notin PlanActions => results[j].result = "skipped"
                  /\ lock' = "free" ]_vars

\* C27: a poll cycle that produced a report calls the repair callback exactly
\* once, with that report, when the report is not healthy and
\* SELF_HEAL_AUTO_REPAIR is enabled, and never when the report is healthy; a
\* callback that raises leaves the loop in its sleep, and the sleep ends after
\* the poll interval in the next pass of the loop.
C27_CallbackOncePerUnhealthyCycle ==
    /\ [](pret.report =>
            LET calls == SelectSeq(callback_calls, LAMBDA c : c.t = pret.t)
                enabled == Lower(environ.SELF_HEAL_AUTO_REPAIR) = TrueText
                overall == last_diagnostics.overall_status
            IN  /\ (overall # "healthy" /\ enabled) =>
                       /\ Len(calls) = 1
                       /\ calls[1].status = overall
                       /\ pret.called
                /\ overall = "healthy" => Len(calls) = 0 /\ ~pret.called)
    /\ [][ (poll_pc = "executing" /\ poll_pc' # "executing") => poll_pc' = "sleep" ]_vars
    /\ [][ (poll_pc = "sleep" /\ poll_pc' # "sleep") =>
               poll_pc' = "ready" /\ now' = now + POLL_INTERVAL ]_vars

\* A cycle called the callback after an earlier cycle's callback had raised
C27_Witness ==
    /\ pret.report
    /\ pret.called
    /\ last_diagnostics.overall_status = "degraded"
    /\ \E i \in 1..Len(poll_errors) :
          poll_errors[i].check = "repair_callback" /\ poll_errors[i].t < pret.t

\* C25 (as stated): when the tests fail and the restore of the backup fails,
\* neither the returned UpdateResult nor a notification of the run says that
\* the update was rolled back.
C25_FailedRollbackIsReported ==
    (uret.returned /\ uret.last = "TESTS_FAILED" /\ ~uret.restore_ok) =>
        /\ uret.result.message # "Tests failed, rolled back"
        /\ \A i \in 1..Len(uret.notes) : uret.notes[i].summary # "Tests failed, rolled back"

\* C26 (as stated): a report in which no component is failed or degraded and
\* at least one is unknown has the overall status unknown.
C26_UnknownOutranksHealthy ==
    (last_diagnostics # NoReport
       /\ "failed" \notin ReportStatuses /\ "degraded" \notin ReportStatuses
       /\ "unknown" \in ReportStatuses) =>
        last_diagnostics.overall_status = "unknown"

\* The requests whose request_approval returned True and for which nothing
\* has been decided or timed out yet
LiveRequests ==
    { r \in Requests :
        /\ [rid |-> r, kind |-> "accepted"] \in gate_events
        /\ \A k \in { "approved", "denied", "timed_out" } : [rid |-> r, kind |-> k] \notin gate_events }

\* C28 (as stated): under concurrent callers at most one accepted request is
\* live, at most one timer is running, and once no call is under way the
\* stored request, both stored callbacks and the timer belong to one and the
\* same accepted call.
C28_AtMostOneLiveRequest ==
    /\ Cardinality(LiveRequests) <= 1
    /\ Cardinality({ r \in Requests : timer_objs[r].state = "running" }) <= 1
    /\ ((\A th \in GateThreads : gate[th].pc = "idle")
          /\ (\A r \in Requests : timer_objs[r].state # "fired" \/ timer_objs[r].pc = "done")
          /\ pending # <<>>) =>
            /\ callback_on_confirm = pending[1].rid
            /\ callback_on_deny = pending[1].rid
            /\ timer # <<>>
            /\ timer[1].rid = pending[1].rid

\* C30 (as stated): no request is both announced as timed out and has one of
\* its callbacks called, no request has more than one callback call, and
\* check_response never raises on a request the timer cleared in between.
C30_ExactlyOneOutcome ==
    /\ \A r \in Requests :
          /\ confirm_calls[r] + deny_calls[r] <= 1
          /\ [rid |-> r, kind |-> "timed_out"] \in gate_events =>
                confirm_calls[r] + deny_calls[r] = 0
    /\ \A e \in gate_events : e.kind # "error"

\* The calls of restart_audio_device in the history that went past the
\* breaker less than a cooldown before call i did, call i included
ProceededWithin(i) ==
    { j \in 1..i :
        /\ audio_history[j].result # "skipped"
        /\ audio_history[i].t - audio_history[j].t < AUDIO_REPAIR_COOLDOWN_MINUTES * 60 }

\* C29 (as stated): also with two threads inside restart_audio_device, the
\* attempt window never holds more than max_attempts entries and no more than
\* max_attempts calls go past the breaker within one cooldown.
C29_BreakerBoundUnderConcurrency ==
    /\ Len(audio_repair_attempts) <= AUDIO_REPAIR_MAX_ATTEMPTS
    /\ \A i \in 1..Len(audio_history) :
          audio_history[i].result # "skipped" =>
              Cardinality(ProceededWithin(i)) <= AUDIO_REPAIR_MAX_ATTEMPTS

\* C31 (as stated): whatever start() and stop() calls were made, at most one
\* thread is inside a cycle of the poll loop at any time.
C31_AtMostOnePollThread ==
    Cardinality({ i \in 1..Len(wd_threads) : wd_threads[i].pc = "cycle" }) <= 1

\* C32 (as stated): the snapshot directory never holds more snapshot
\* directories than the retention count of the repair snapshots, nor more
\* backup archives than SELF_UPDATE_KEEP_SNAPSHOTS.
C32_SnapshotRetentionBounded ==
    /\ Cardinality(ListedDirs(snapshots)) <= SNAPSHOT_KEEP
    /\ Cardinality({ i \in 1..Len(snapshots) : snapshots[i].kind = "zip" })
          <= SELF_UPDATE_KEEP_SNAPSHOTS

(***************************************************************************)
(* create_plan: one item per recommendation, in priority order             *)
(***************************************************************************)
\* The place of the i-th recommendation in a list ordered by priority in
\* which recommendations of one priority keep the order of the report
PlaceOf(recs, i) ==
    Cardinality({ j \in 1..Len(recs) :
                    \/ Priority(recs[j]) < Priority(recs[i])
                    \/ Priority(recs[j]) = Priority(recs[i]) /\ j <= i })

\* C33: create_plan returns exactly one item per recommendation of the
\* report, ordered by non-decreasing priority, each action's priority coming
\* from the fixed map (10 for an action not in the map); items of equal
\* priority keep the relative order of the recommendation list.
C33_PlanOrderedByPriority ==
    planner_plan.returned =>
        LET items == planner_plan.items
            recs == planner_report.recommendations
        IN  /\ Len(items) = Len(recs)
            /\ \A i \in 1..Len(recs) :
                  /\ items[PlaceOf(recs, i)].action = recs[i]
                  /\ items[PlaceOf(recs, i)].priority =
                        (IF recs[i] \in DOMAIN PriorityMap THEN PriorityMap[recs[i]] ELSE 10)
            /\ \A i \in 1..(Len(items) - 1) : items[i].priority <= items[i + 1].priority

\* C33 witness: a report that names two actions the map does not know and
\* then mapped actions, one of them twice: the plan starts with the mapped
\* actions and ends with the two unknown ones in the order of the report.
C33_Witness ==
    /\ planner_plan.returned
    /\ LET items == planner_plan.items
           recs == planner_report.recommendations
       IN  /\ Len(recs) >= 5
           /\ recs[1] = "clear_cache" /\ recs[2] = "modify_code"
           /\ recs[Len(recs)] = recs[Len(recs) - 1]
           /\ items[Len(items) - 1].action = "clear_cache"
           /\ items[Len(items)].action = "modify_code"
           /\ items[1].priority < items[Len(items)].priority

(***************************************************************************)
(* get_auto_plan and get_approval_needed                                   *)
(***************************************************************************)
\* The dict the views make of a plan item
AsDict(p) == [action |-> p.action, reason |-> p.reason, auto |-> p.auto]

\* The items of a plan at the places of a set, in plan order
RECURSIVE ItemsAt(_, _)
ItemsAt(items, places) ==
    IF items = <<>> THEN <<>>
    ELSE ItemsAt(SubSeq(items, 1, Len(items) - 1), places)
            \o (IF Len(items) \in places THEN << AsDict(items[Len(items)]) >> ELSE <<>>)

\* C34: what the auto-repair path and the "fix yourself" path hand to
\* execute_plan are the items of the plan with auto = true and no item with
\* auto = false; get_auto_plan and get_approval_needed partition the items
\* of create_plan for the same report, each item in exactly one of them.
C34_OnlyAutoItemsExecuted ==
    LET items == planner_plan.items
        autos == { i \in 1..Len(items) : items[i].auto }
        others == { i \in 1..Len(items) : ~items[i].auto }
    IN  /\ planner_plan.repaired =>
              /\ planner_plan.handed = ItemsAt(items, autos)
              /\ \A k \in 1..Len(planner_plan.handed) : planner_plan.handed[k].auto
        /\ planner_plan.asked =>
              /\ planner_plan.approval = ItemsAt(items, others)
              /\ \A k \in 1..Len(planner_plan.approval) : ~planner_plan.approval[k].auto
        /\ (planner_plan.repaired /\ planner_plan.asked) =>
              /\ Len(planner_plan.handed) + Len(planner_plan.approval) = Len(items)
              /\ autos \cap others = {}
              /\ autos \cup others = 1..Len(items)

\* C34 witness: a report naming an action that needs approval, an unknown
\* one and more automatic-safe actions than the cap allows: five items were
\* handed to execute_plan, and the approval view holds the others, one of
\* them an automatic-safe action beyond the cap.
C34_Witness ==
    /\ planner_plan.repaired
    /\ planner_plan.asked
    /\ Len(planner_plan.handed) = MAX_AUTO_ACTIONS
    /\ Len(planner_plan.approval) >= 3
    /\ \E k \in 1..Len(planner_plan.approval) :
          planner_plan.approval[k].action \in AUTO_SAFE_ACTIONS
    /\ \E k \in 1..Len(planner_plan.approval) : planner_plan.approval[k].action = "modify_code"

(***************************************************************************)
(* commit_patch: the size limit                                            *)
(***************************************************************************)
\* The inserted plus deleted lines of a change: of all its files, staged or
\* not
ChangeLines(tree) == Insertions(tree) + Deletions(tree)

\* C35 (as stated): commit_patch rejects for size (ok = false, no revision,
\* nothing committed) exactly when the inserted plus deleted lines of the
\* change exceed MAX_LINES_PER_COMMIT: a change over the limit is rejected, and
\* a change of at most 500 lines is never rejected for size, whatever its
\* number of files and whether it is staged.
C35_RejectedExactlyWhenOverLimit ==
    [][ (gret'.op = "commit_patch" /\ Len(commit_history') = Len(commit_history) + 1) =>
           LET last == commit_history'[Len(commit_history')]
               total == ChangeLines(worktree)
           IN  /\ last.outcome = "too_large" => total > MAX_LINES_PER_COMMIT
               /\ total > MAX_LINES_PER_COMMIT =>
                     /\ ~gret'.ok
                     /\ gret'.hash = 0
                     /\ last.outcome # "committed" ]_vars

(***************************************************************************)
(* run_full_autonomy_flow: the test run and the failing fetch              *)
(***************************************************************************)
\* The last flow reported an applied update
ReportsAppliedUpdate ==
    /\ uret.returned
    /\ uret.result.success
    /\ uret.result.tests_passed
    /\ uret.last = "OK"
    /\ \E i \in 1..Len(uret.notes) : uret.notes[i].event = "update_applied"

\* C36 (as stated): run_full_autonomy_flow reports an applied update
\* (success, tests_passed, last result OK, update_applied notification) only
\* if the update was merged and the test suite was run on the merged code and
\* passed; a merged update is never accepted without a test run.
C36_AppliedOnlyAfterTestRun ==
    ReportsAppliedUpdate => (uret.merged /\ uret.tests_ran)

\* C37 (as stated): when fetching the remote state fails, the flow ends with
\* success = false and an outcome other than "already up to date", and no
\* backup, merge or test run is performed.
C37_FailedFetchIsAFailure ==
    (uret.returned /\ uret.fetch = "failed") =>
        /\ ~uret.result.success
        /\ uret.last # "NO_UPDATES"
        /\ uret.result.backup_path = <<>>
        /\ ~uret.merged
        /\ ~uret.tests_ran

(***************************************************************************)
(* check_response: a response that is exactly a deny or a confirm phrase   *)
(***************************************************************************)
\* C38 (as stated): a response to a pending request that is exactly one
\* phrase of the deny set, in any letter case, yields "denied" and invokes
\* on_deny, never on_confirm, also when the request requires the code and
\* the response does not carry it; a response that is exactly one phrase of
\* the confirm set yields "approved" when the request requires no code.
C38_ExactPhraseDecides ==
    [][ (pending # <<>> /\ IsCheckCall) =>
           LET said == Strip(Lower(aret'.text))
               r == n_requests
           IN  /\ said \in DENY_PHRASES =>
                     /\ aret'.result = "denied"
                     /\ confirm_calls' = confirm_calls
                     /\ deny_calls'[r] = (IF callback_on_deny # 0 THEN 1 ELSE 0)
               /\ (said \in CONFIRM_PHRASES /\ ~pending[1].requires_pin) =>
                     aret'.result = "approved" ]_vars

(***************************************************************************)
(* is_in_maintenance_window                                                *)
(***************************************************************************)
\* Start and end of the well-formed windows of the model, in seconds of the day
WindowBounds ==
    [w \in { DefaultWindow, WindowWithinDay, WindowWrapping, WindowSpaced } |->
        IF w = DefaultWindow THEN [s |-> 0, e |-> 86340]
        ELSE IF w = WindowWithinDay THEN [s |-> 32400, e |-> 61200]
        ELSE [s |-> 79200, e |-> 21600]]

\* C39 (as stated): for a window HH:MM-HH:MM with start s and end e and the
\* time of day t, is_in_maintenance_window returns true iff s <= t <= e when
\* s <= e, and iff t >= s or t <= e when s > e; with the default window
\* 00:00-23:59 and with an empty or malformed window it returns true for
\* every t.
C39_WindowTest ==
    wret.called =>
        LET t == wret.t % SecondsPerDay
        IN  /\ apply_window \in DOMAIN WindowBounds =>
                  LET s == WindowBounds[apply_window].s
                      e == WindowBounds[apply_window].e
                  IN  wret.result <=> (IF s <= e THEN s <= t /\ t <= e ELSE t >= s \/ t <= e)
            /\ (apply_window = DefaultWindow \/ apply_window \notin DOMAIN WindowBounds) =>
                  wret.result

====
